---- MODULE Spec2Model ----
(***************************************************************************)
(* Model of the querylog tools of blablacar/data-copilot:                  *)
(*   - build-mirror  (src/src/querylog/create_table_structure.py)          *)
(*   - mine-usage    (src/src/querylog/add_usage_data.py)                  *)
(*   - run-query     (src/src/querylog/run_query.py)                       *)
(*                                                                         *)
(* Text is modelled as a sequence of tokens.  A token is one word of the   *)
(* text or one of the whitespace characters "SP" (space), "LF" (line feed) *)
(* and "CR" (carriage return).  A file is a record: whether it exists and  *)
(* the text it holds.                                                      *)
(***************************************************************************)
EXTENDS Integers, Sequences, FiniteSets, TLC

\* ------------------------------------------------------------------ bounds

\* Number of table identities (catalog.schema.table) in the universe; the
\* preview pool is checked with up to NTables tasks.
NTables == 5
\* Runs one after the other: the catalog lists tables among 1..MaxRows.
MaxRows == 1
\* One run on a given tree: the catalog lists tables among 1..RunRows.
RunRows == 2
\* The preview pool alone: at most MaxOdd tasks of a run get anything but rows
\* from the remote side and a clean write of their file.
MaxOdd == 1

\* ThreadPoolExecutor(max_workers=4)
max_workers == 4
\* ask_user_confirmation: the estimate above which the user is asked, in GB.
Threshold == 100
\* Largest number of turns of the loop of the prompt.
MaxPrompts == 2
\* get_table_preview(client, table_id, max_results=10)
max_results == 10
\* _format_preview_value(value, field_type, max_length=100)
max_length == 100
\* The width of "{!s:<20} ".
ColumnWidth == 20
\* Largest number of rows of a table that is listed whole.
MaxListed == 2
\* LIMIT 10 of the usage query.
TopQueries == 10
\* Number of tables listed in the leaderboard.
TopTables == 200
\* Largest number of records the usage query returns.
MaxRecords == 2
\* Largest number of jobs of an audit log the usage query is run on alone.
MaxJobs == 3
\* Largest number of records of a short list handed to the leaderboard.
MaxBoard == 3

Tables == 1..NTables

\* ------------------------------------------------------------------- text

Whitespace == {"SP", "LF", "CR"}

RECURSIVE LStrip(_)
LStrip(s) ==
    IF s # <<>> /\ Head(s) \in Whitespace THEN LStrip(Tail(s)) ELSE s

RECURSIVE RStrip(_)
RStrip(s) ==
    IF s # <<>> /\ s[Len(s)] \in Whitespace
    THEN RStrip(SubSeq(s, 1, Len(s) - 1))
    ELSE s

\* str.strip(): leading and trailing whitespace removed.
Strip(s) == RStrip(LStrip(s))

\* str.startswith(prefix)
StartsWith(s, prefix) ==
    /\ Len(s) >= Len(prefix)
    /\ SubSeq(s, 1, Len(prefix)) = prefix

\* f.read() of a file opened in text mode with newline=None: universal
\* newlines, "\r\n" and "\r" are both read as "\n".
RECURSIVE ReadText(_)
ReadText(s) ==
    IF s = <<>> THEN <<>>
    ELSE IF Head(s) = "CR"
         THEN IF Len(s) >= 2 /\ s[2] = "LF"
              THEN <<"LF">> \o ReadText(Tail(Tail(s)))
              ELSE <<"LF">> \o ReadText(Tail(s))
         ELSE <<Head(s)>> \o ReadText(Tail(s))

\* ------------------------------------------------------------------ files

NoFile == [exists |-> FALSE, data |-> <<>>]
File(d) == [exists |-> TRUE, data |-> d]

\* ------------------------------------------------------- remote responses

\* The definition texts (ddl column) the catalog may return for a table.
DdlTexts ==
    { <<"a">>, <<"SP", "b", "LF">>, <<"a", "CR", "LF", "b">> }

\* A catalog row: the table it names, its ddl, and whether a required field
\* of the row is missing (pd.isna).
Row(t, d, na) == [t |-> t, ddl |-> d, na |-> na]

RowsFor(t) ==
    { Row(t, d, FALSE) : d \in DdlTexts } \cup { Row(t, <<"nan">>, TRUE) }

\* The catalogs: rows ORDER BY table_catalog, table_schema, table_name, one
\* row per table, for any subset of the tables t..n.
RECURSIVE CatalogsFrom(_, _)
CatalogsFrom(t, n) ==
    IF t > n THEN { <<>> }
    ELSE LET rest == CatalogsFrom(t + 1, n)
         IN  rest \cup { <<r>> \o c : r \in RowsFor(t), c \in rest }

Catalogs == CatalogsFrom(1, MaxRows)
RunCatalogs == CatalogsFrom(1, RunRows)

\* table_id = f"{catalog}.{schema}.{table_name}"
TableId(t) == ToString(t)

ErrorSentinel == <<"--", "Error", "retrieving", "preview">>

\* get_table_preview: the three texts it can return.
ErrorPreview(t) == ErrorSentinel \o <<"for", TableId(t), "LF">>
NoDataPreview == <<"--", "No", "data", "available", "in", "this", "table", "LF">>
RowsPreview(t) == <<"--", "Preview", "of", "table:", TableId(t), "LF">>

Responses == {"rows", "empty", "error"}

\* get_table_preview answering an empty table with the error text.
M_get_table_preview_EmptyIsError(t, r) ==
    CASE r = "rows"  -> RowsPreview(t)
      [] OTHER       -> ErrorPreview(t)

get_table_preview(t, r) ==
    CASE r = "rows"  -> RowsPreview(t)
      [] r = "empty" -> NoDataPreview
      [] OTHER       -> ErrorPreview(t)

\* --------------------------------------------------------------- staleness

ReadFaults == {"none", "preview", "ddl"}

\* should_update_preview answering True for every table.
M_should_update_preview_Always(ddlF, prevF, current_ddl, rf) == TRUE

\* should_update_preview without the test for the error message.
M_should_update_preview_NoSentinel(ddlF, prevF, current_ddl, rf) ==
    IF ~prevF.exists THEN TRUE
    ELSE IF rf = "preview" THEN TRUE
    ELSE IF ddlF.exists
         THEN IF rf = "ddl" THEN TRUE
              ELSE Strip(ReadText(ddlF.data)) # Strip(current_ddl)
         ELSE FALSE

\* should_update_preview with the comparison of the two ddl texts inverted.
M_should_update_preview_SameDdl(ddlF, prevF, current_ddl, rf) ==
    IF ~prevF.exists THEN TRUE
    ELSE IF rf = "preview" THEN TRUE
    ELSE IF StartsWith(Strip(ReadText(prevF.data)), ErrorSentinel) THEN TRUE
    ELSE IF ddlF.exists
         THEN IF rf = "ddl" THEN TRUE
              ELSE Strip(ReadText(ddlF.data)) = Strip(current_ddl)
         ELSE FALSE

\* should_update_preview(ddl_file_path, preview_file_path, current_ddl);
\* rf says which read, if any, raises.
should_update_preview(ddlF, prevF, current_ddl, rf) ==
    IF ~prevF.exists THEN TRUE
    ELSE IF rf = "preview" THEN TRUE
    ELSE IF StartsWith(Strip(ReadText(prevF.data)), ErrorSentinel) THEN TRUE
    ELSE IF ddlF.exists
         THEN IF rf = "ddl" THEN TRUE
              ELSE Strip(ReadText(ddlF.data)) # Strip(current_ddl)
         ELSE FALSE

\* Whether should_update_preview gets as far as the read that rf makes raise.
ReadReached(ddlF, prevF, rf) ==
    CASE rf = "preview" -> prevF.exists
      [] rf = "ddl"     -> /\ prevF.exists
                           /\ ~StartsWith(Strip(ReadText(prevF.data)), ErrorSentinel)
                           /\ ddlF.exists
      [] OTHER          -> TRUE

\* ------------------------------------------------------------------ state

VARIABLES
    \* the directory tree under the output root
    rootDir,        \* the output root exists
    tableDir,       \* [Tables -> BOOLEAN]: root/catalog/schema/table exists
    ddlFile,        \* [Tables -> file]: ddl.sql
    previewFile,    \* [Tables -> file]: preview.sql
    \* the build-mirror run in progress
    pc,             \* position of the control thread
    enable_preview, \* not --skip-preview
    df,             \* the catalog rows fetched by this run
    idx,            \* index of the row the loop is at
    preview_tasks,  \* sequence of tables whose preview is to be fetched
    created_tables, \* counter printed at the end
    outcome,        \* [Tables -> how the loop left the table's row]
    rfault,         \* [Tables -> which read of should_update_preview raised]
    queue,          \* work items submitted and not yet taken by a worker
    wpc,            \* [Tables -> position of the table's preview task]
    resp,           \* [Tables -> what get_table_preview was answered]
    wfault,         \* [Tables -> which step of the task's file write raised]
    endReason,      \* how the run ended
    exitCode,       \* exit code of the process
    \* relation of the run to the previous one
    sameAsPrev,     \* same catalog rows and options as the previous run
    prevCompleted,  \* the previous run ran to its final summary
    \* mine-usage
    usageFile,      \* [Tables -> usage.sql of the table]
    leaderboard,    \* HIGH_USAGE_TABLES.md in the root
    mineRun,        \* position of main() of add_usage_data
    jobs,           \* the audit log: the jobs of INFORMATION_SCHEMA.JOBS
    data,           \* records returned by query_information_schema_jobs
    index,          \* index of the record the loop is at
    updated_tables, \* counter printed at the end
    skipped_tables, \* counter printed at the end
    mineEnd,        \* how the run ended
    mineExit,       \* exit code of the process
    \* run-query
    queryRun,       \* position of main() of run_query
    force,          \* --force
    output_file,    \* --output_file is given
    gb_processed,   \* estimate of the dry run, in GB
    prompts,        \* how many times the confirmation was asked
    response,       \* the last answer to it, stripped and lowered
    results,        \* the result set of the query job
    df_error,       \* the error to_dataframe() raised, if any
    retrieval,      \* how the result set became a DataFrame
    frame,          \* the DataFrame df
    resultFile,     \* the file of --output_file
    statsFile,      \* <sql file stem>.query_stats.json
    steps,          \* the steps of the run that completed, in order
    queryEnd,       \* how the run ended
    queryExit,      \* exit code of the process
    \* the rendering of a preview
    listing,        \* the table and what list_rows returned of it
    preview_lines,  \* the lines get_table_preview has built
    rendered,       \* the text get_table_preview returned
    \* the filters of the catalog
    dataset_filter_regex, \* --dataset-filter or DATASET_FILTER_REGEX
    table_filter_regex,   \* --table-filter or TABLE_FILTER_REGEX
    fetched,        \* the tables fetch_tables_from_bigquery returned
    tables_list     \* tables_list of the usage query

fsVars == <<rootDir, tableDir, ddlFile, previewFile>>
runVars == <<pc, enable_preview, df, idx, preview_tasks, created_tables, outcome,
             rfault, endReason, exitCode>>
poolVars == <<queue, wpc, resp, wfault>>
histVars == <<sameAsPrev, prevCompleted>>
mineVars == <<usageFile, leaderboard, mineRun, jobs, data, index, updated_tables,
              skipped_tables, mineEnd, mineExit>>

queryVars == <<queryRun, force, output_file, gb_processed, prompts, response, results,
               df_error,
               retrieval, frame, resultFile, statsFile, steps, queryEnd,
               queryExit>>

renderVars == <<listing, preview_lines, rendered>>

filterVars == <<dataset_filter_regex, table_filter_regex, fetched, tables_list>>

vars == <<fsVars, runVars, poolVars, histVars, mineVars, queryVars, renderVars,
          filterVars>>

Range(s) == { s[i] : i \in 1..Len(s) }

None == [t \in Tables |-> "none"]

\* A DataFrame or a result set: the column names and the rows.
Table(columns, rows) == [columns |-> columns, rows |-> rows]
\* No answer was read yet.
NoAnswer == <<"none">>

\* to_dataframe() raised nothing.
NoError == [permission |-> FALSE, text |-> <<>>]

NoTable == Table(<<>>, <<>>)

\* run-query has not run.
QueryIdle ==
    /\ queryRun = "idle"
    /\ force = FALSE
    /\ output_file = FALSE
    /\ gb_processed = 0
    /\ prompts = 0
    /\ response = NoAnswer
    /\ results = NoTable
    /\ retrieval = "none"
    /\ df_error = NoError
    /\ frame = NoTable
    /\ resultFile = NoFile
    /\ statsFile = NoFile
    /\ steps = <<>>
    /\ queryEnd = "none"
    /\ queryExit = 0

\* What get_table and list_rows return of a table: its name, its number of
\* rows, the type of each column and the rows that were listed.
Listing(t, num_rows, field_types, rows) ==
    [t |-> t, num_rows |-> num_rows, field_types |-> field_types, rows |-> rows]

\* No preview is being rendered.
RenderIdle ==
    /\ listing = Listing(1, 0, <<>>, <<>>)
    /\ preview_lines = <<>>
    /\ rendered = <<>>

\* A filter: None, or the text of a regular expression.
Filter(none, text) == [none |-> none, text |-> text]
NoFilter == Filter(TRUE, <<>>)

\* The outcome of a query on the catalog: whether it ran, and the tables.
NotFetched == [done |-> FALSE, tables |-> {}]
Fetched(tables) == [done |-> TRUE, tables |-> tables]

\* No filter is given and the catalog was not queried.
FilterIdle ==
    /\ dataset_filter_regex = NoFilter
    /\ table_filter_regex = NoFilter
    /\ fetched = NotFetched
    /\ tables_list = NotFetched

\* mine-usage has not run and has left nothing in the tree.
MineIdle ==
    /\ usageFile = [t \in Tables |-> NoFile]
    /\ leaderboard = NoFile
    /\ mineRun = "idle"
    /\ data = <<>>
    /\ index = 0
    /\ updated_tables = 0
    /\ skipped_tables = 0
    /\ mineEnd = "none"
    /\ mineExit = 0

Init ==
    /\ rootDir = FALSE
    /\ tableDir = [t \in Tables |-> FALSE]
    /\ ddlFile = [t \in Tables |-> NoFile]
    /\ previewFile = [t \in Tables |-> NoFile]
    /\ pc = "idle"
    /\ enable_preview = TRUE
    /\ df = <<>>
    /\ idx = 0
    /\ preview_tasks = <<>>
    /\ created_tables = 0
    /\ outcome = None
    /\ rfault = None
    /\ queue = <<>>
    /\ wpc = None
    /\ resp = None
    /\ wfault = None
    /\ endReason = "none"
    /\ exitCode = 0
    /\ sameAsPrev = FALSE
    /\ prevCompleted = FALSE
    /\ QueryIdle
    /\ RenderIdle
    /\ FilterIdle
    /\ MineIdle
    /\ jobs = <<>>

\* ------------------------------------------------------- build-mirror: main

Ended == {"idle", "done"}

\* main() parses the options and calls create_table_structure.
StartRun(ep) ==
    /\ pc \in Ended
    /\ pc' = "client"
    /\ enable_preview' = ep
    /\ idx' = 0
    /\ preview_tasks' = <<>>
    /\ created_tables' = 0
    /\ outcome' = None
    /\ rfault' = None
    /\ queue' = <<>>
    /\ wpc' = None
    /\ resp' = None
    /\ wfault' = None
    /\ endReason' = "none"
    /\ exitCode' = 0
    /\ prevCompleted' = (pc = "done" /\ endReason = "completed")
    /\ sameAsPrev' = (ep = enable_preview)
    /\ UNCHANGED <<fsVars, df, mineVars, queryVars, renderVars, filterVars>>

\* The run returns from create_table_structure and main returns 0.
Return(reason) ==
    /\ pc' = "done"
    /\ endReason' = reason
    /\ exitCode' = 0

\* An exception leaves main: the interpreter prints it and exits with 1.
Raise(reason) ==
    /\ pc' = "done"
    /\ endReason' = reason
    /\ exitCode' = 1

\* get_billing_project() and bigquery.Client(...) succeed.
ClientInitOk ==
    /\ pc = "client"
    /\ pc' = "fetch"
    /\ UNCHANGED <<fsVars, enable_preview, df, idx, preview_tasks, created_tables,
                   outcome, rfault, endReason, exitCode, poolVars, histVars, mineVars, queryVars, renderVars, filterVars>>

\* PROJECT_ID is not set or the client cannot be built: re-raised.
ClientInitFails ==
    /\ pc = "client"
    /\ Raise("client")
    /\ UNCHANGED <<fsVars, enable_preview, df, idx, preview_tasks, created_tables,
                   outcome, rfault, poolVars, histVars, mineVars, queryVars, renderVars, filterVars>>

\* FetchFails with base_path.mkdir moved before the catalog query.
M_FetchFails_AfterMkdir ==
    /\ pc = "fetch"
    /\ rootDir' = TRUE
    /\ Return("fetch_failed")
    /\ UNCHANGED <<tableDir, ddlFile, previewFile, enable_preview, df, idx,
                   preview_tasks, created_tables, outcome, rfault, poolVars,
                   histVars, mineVars, queryVars, renderVars, filterVars>>

\* fetch_tables_from_bigquery raises: printed, and the function returns.
FetchFails ==
    /\ pc = "fetch"
    /\ Return("fetch_failed")
    /\ UNCHANGED <<fsVars, enable_preview, df, idx, preview_tasks, created_tables,
                   outcome, rfault, poolVars, histVars, mineVars, queryVars, renderVars, filterVars>>

\* The catalog query answers with no row: printed, and the function returns.
FetchEmpty ==
    /\ pc = "fetch"
    /\ df' = <<>>
    /\ sameAsPrev' = (sameAsPrev /\ df = <<>>)
    /\ Return("empty")
    /\ UNCHANGED <<fsVars, enable_preview, idx, preview_tasks, created_tables,
                   outcome, rfault, poolVars, prevCompleted, mineVars, queryVars, renderVars, filterVars>>

\* The catalog query answers with rows; base_path.mkdir(exist_ok=True).
FetchOk(rows) ==
    /\ pc = "fetch"
    /\ rows # <<>>
    /\ df' = rows
    /\ sameAsPrev' = (sameAsPrev /\ df = rows)
    /\ rootDir' = TRUE
    /\ pc' = "sync"
    /\ idx' = 1
    /\ UNCHANGED <<tableDir, ddlFile, previewFile, enable_preview, preview_tasks,
                   created_tables, outcome, rfault, endReason, exitCode,
                   poolVars, prevCompleted, mineVars, queryVars, renderVars, filterVars>>

\* The catalog query answers with rows and base_path.mkdir raises (the root
\* is absent and cannot be created): nothing catches it.
RootMkdirFails(rows) ==
    /\ pc = "fetch"
    /\ rows # <<>>
    /\ ~rootDir
    /\ df' = rows
    /\ sameAsPrev' = (sameAsPrev /\ df = rows)
    /\ Raise("root_mkdir")
    /\ UNCHANGED <<fsVars, enable_preview, idx, preview_tasks, created_tables,
                   outcome, rfault, poolVars, prevCompleted, mineVars, queryVars, renderVars, filterVars>>

\* ------------------------------------------- build-mirror: the row loop

\* The loop goes on with the next row, or leaves for the pool.
NextRow ==
    IF idx < Len(df)
    THEN /\ idx' = idx + 1
         /\ pc' = "sync"
    ELSE /\ idx' = idx
         /\ pc' = "submit"

\* A row with missing data: "Skipping row", continue.
SkipRow ==
    /\ pc = "sync"
    /\ df[idx].na
    /\ outcome' = [outcome EXCEPT ![df[idx].t] = "skipped"]
    /\ NextRow
    /\ UNCHANGED <<fsVars, enable_preview, df, preview_tasks, created_tables,
                   rfault, endReason, exitCode, poolVars, histVars, mineVars, queryVars, renderVars, filterVars>>

\* RowError with the exception ending the loop instead of the iteration.
M_RowError_Aborts ==
    /\ outcome' = [outcome EXCEPT ![df[idx].t] = "error"]
    /\ idx' = idx
    /\ pc' = "submit"
    /\ UNCHANGED <<enable_preview, df, preview_tasks, created_tables, rfault,
                   endReason, exitCode, poolVars, histVars, mineVars, queryVars, renderVars, filterVars>>

\* An exception in the row's try block: "Error processing row", continue.
RowError ==
    /\ outcome' = [outcome EXCEPT ![df[idx].t] = "error"]
    /\ NextRow
    /\ UNCHANGED <<enable_preview, df, preview_tasks, created_tables, rfault,
                   endReason, exitCode, poolVars, histVars, mineVars, queryVars, renderVars, filterVars>>

\* table_dir.mkdir(parents=True, exist_ok=True) raises.
RowMkdirFails ==
    /\ pc = "sync"
    /\ ~df[idx].na
    /\ RowError
    /\ UNCHANGED fsVars

\* The directory is made and open(ddl_file_path, "w") raises.
RowOpenFails ==
    /\ pc = "sync"
    /\ ~df[idx].na
    /\ tableDir' = [tableDir EXCEPT ![df[idx].t] = TRUE]
    /\ RowError
    /\ UNCHANGED <<rootDir, ddlFile, previewFile>>

\* The file is opened, which truncates it, and f.write(ddl) or the close
\* raises.
RowWriteFails ==
    /\ pc = "sync"
    /\ ~df[idx].na
    /\ tableDir' = [tableDir EXCEPT ![df[idx].t] = TRUE]
    /\ ddlFile' = [ddlFile EXCEPT ![df[idx].t] = File(<<>>)]
    /\ RowError
    /\ UNCHANGED <<rootDir, previewFile>>

\* RowOk with the preview queued twice.
M_RowOk_QueuesTwice(rf) ==
    /\ pc = "sync"
    /\ ~df[idx].na
    /\ LET t == df[idx].t
           ddl == Strip(df[idx].ddl)
           written == File(ddl)
       IN  /\ tableDir' = [tableDir EXCEPT ![t] = TRUE]
           /\ ddlFile' = [ddlFile EXCEPT ![t] = written]
           /\ IF enable_preview
              THEN /\ ReadReached(written, previewFile[t], rf)
                   /\ rfault' = [rfault EXCEPT ![t] = rf]
                   /\ preview_tasks' =
                        IF should_update_preview(written, previewFile[t], ddl, rf)
                        THEN preview_tasks \o <<t, t>>
                        ELSE preview_tasks
              ELSE /\ rf = "none"
                   /\ UNCHANGED <<rfault, preview_tasks>>
           /\ outcome' = [outcome EXCEPT ![t] = "ok"]
    /\ created_tables' = created_tables + 1
    /\ NextRow
    /\ UNCHANGED <<rootDir, previewFile, enable_preview, df, endReason,
                   exitCode, poolVars, histVars, mineVars, queryVars, renderVars, filterVars>>

\* The whole body of the loop for one row: the directory is made, ddl.sql is
\* written, the preview is queued if should_update_preview says so, and
\* created_tables is incremented.
RowOk(rf) ==
    /\ pc = "sync"
    /\ ~df[idx].na
    /\ LET t == df[idx].t
           ddl == Strip(df[idx].ddl)
           written == File(ddl)
       IN  /\ tableDir' = [tableDir EXCEPT ![t] = TRUE]
           /\ ddlFile' = [ddlFile EXCEPT ![t] = written]
           /\ IF enable_preview
              THEN /\ ReadReached(written, previewFile[t], rf)
                   /\ rfault' = [rfault EXCEPT ![t] = rf]
                   /\ preview_tasks' =
                        IF should_update_preview(written, previewFile[t], ddl, rf)
                        THEN Append(preview_tasks, t)
                        ELSE preview_tasks
              ELSE /\ rf = "none"
                   /\ UNCHANGED <<rfault, preview_tasks>>
           /\ outcome' = [outcome EXCEPT ![t] = "ok"]
    /\ created_tables' = created_tables + 1
    /\ NextRow
    /\ UNCHANGED <<rootDir, previewFile, enable_preview, df, endReason,
                   exitCode, poolVars, histVars, mineVars, queryVars, renderVars, filterVars>>

\* ------------------------------------------- build-mirror: the preview pool

\* "if preview_tasks and enable_preview" is false: the final summary.
NoTasks ==
    /\ pc = "submit"
    /\ ~(preview_tasks # <<>> /\ enable_preview)
    /\ Return("completed")
    /\ UNCHANGED <<fsVars, enable_preview, df, idx, preview_tasks, created_tables,
                   outcome, rfault, poolVars, histVars, mineVars, queryVars, renderVars, filterVars>>

\* executor.submit for every task, in the order of preview_tasks.
SubmitAll ==
    /\ pc = "submit"
    /\ preview_tasks # <<>> /\ enable_preview
    /\ queue' = preview_tasks
    /\ wpc' = [t \in Tables |-> IF t \in Range(preview_tasks) THEN "queued" ELSE "none"]
    /\ pc' = "pool"
    /\ UNCHANGED <<fsVars, enable_preview, df, idx, preview_tasks, created_tables,
                   outcome, rfault, endReason, exitCode, resp, wfault, histVars, mineVars, queryVars, renderVars, filterVars>>

\* The tasks a worker thread is executing.
InFlight == { t \in Tables : wpc[t] \in {"fetch", "write"} }

\* WorkerTake with one thread per submitted task.
M_WorkerTake_Unbounded ==
    /\ pc = "pool"
    /\ queue # <<>>
    /\ wpc' = [wpc EXCEPT ![Head(queue)] = "fetch"]
    /\ queue' = Tail(queue)
    /\ UNCHANGED <<fsVars, runVars, resp, wfault, histVars, mineVars, queryVars, renderVars, filterVars>>

\* A worker thread takes the next work item; the executor has at most
\* max_workers threads.
WorkerTake ==
    /\ pc = "pool"
    /\ queue # <<>>
    /\ Cardinality(InFlight) < max_workers
    /\ wpc' = [wpc EXCEPT ![Head(queue)] = "fetch"]
    /\ queue' = Tail(queue)
    /\ UNCHANGED <<fsVars, runVars, resp, wfault, histVars, mineVars, queryVars, renderVars, filterVars>>

\* WorkerFetch with get_table_preview letting the remote error through: the
\* handler of fetch_and_save_preview catches it and nothing is written.
M_WorkerFetch_ErrorEscapes(t, r) ==
    /\ pc = "pool"
    /\ wpc[t] = "fetch"
    /\ resp' = [resp EXCEPT ![t] = r]
    /\ IF r = "error"
       THEN /\ wpc' = [wpc EXCEPT ![t] = "finished"]
            /\ UNCHANGED previewFile
       ELSE /\ wpc' = [wpc EXCEPT ![t] = "write"]
            /\ previewFile' = [previewFile EXCEPT ![t] = File(<<>>)]
    /\ UNCHANGED <<rootDir, tableDir, ddlFile, runVars, queue, wfault, histVars, mineVars, queryVars, renderVars, filterVars>>

\* preview_content = get_table_preview(...), where r is what the remote side
\* does, and open(preview_file_path, "w"): the file is created or truncated.
WorkerFetch(t, r) ==
    /\ pc = "pool"
    /\ wpc[t] = "fetch"
    /\ resp' = [resp EXCEPT ![t] = r]
    /\ previewFile' = [previewFile EXCEPT ![t] = File(<<>>)]
    /\ wpc' = [wpc EXCEPT ![t] = "write"]
    /\ UNCHANGED <<rootDir, tableDir, ddlFile, runVars, queue, wfault, histVars, mineVars, queryVars, renderVars, filterVars>>

\* get_table_preview returns and open(preview_file_path, "w") raises: caught,
\* an error message is returned.
WorkerOpenFails(t, r) ==
    /\ pc = "pool"
    /\ wpc[t] = "fetch"
    /\ resp' = [resp EXCEPT ![t] = r]
    /\ wfault' = [wfault EXCEPT ![t] = "open"]
    /\ wpc' = [wpc EXCEPT ![t] = "finished"]
    /\ UNCHANGED <<fsVars, runVars, queue, histVars, mineVars, queryVars, renderVars, filterVars>>

\* WorkerWrite with every task writing to the path of the last task queued
\* (the path bound late, to the loop variable).
M_WorkerWrite_LastPath(t) ==
    /\ pc = "pool"
    /\ wpc[t] = "write"
    /\ previewFile' = [previewFile EXCEPT ![preview_tasks[Len(preview_tasks)]] =
                                              File(get_table_preview(t, resp[t]))]
    /\ wpc' = [wpc EXCEPT ![t] = "finished"]
    /\ UNCHANGED <<rootDir, tableDir, ddlFile, runVars, queue, resp, wfault,
                   histVars, mineVars, queryVars, renderVars, filterVars>>

\* f.write(preview_content) and the close; (table_id, "Created: ...") returned.
WorkerWrite(t) ==
    /\ pc = "pool"
    /\ wpc[t] = "write"
    /\ previewFile' = [previewFile EXCEPT ![t] = File(get_table_preview(t, resp[t]))]
    /\ wpc' = [wpc EXCEPT ![t] = "finished"]
    /\ UNCHANGED <<rootDir, tableDir, ddlFile, runVars, queue, resp, wfault,
                   histVars, mineVars, queryVars, renderVars, filterVars>>

\* f.write or the close raises: caught, an error message is returned.
WorkerWriteFails(t) ==
    /\ pc = "pool"
    /\ wpc[t] = "write"
    /\ wfault' = [wfault EXCEPT ![t] = "write"]
    /\ wpc' = [wpc EXCEPT ![t] = "finished"]
    /\ UNCHANGED <<fsVars, runVars, queue, resp, histVars, mineVars, queryVars, renderVars, filterVars>>

\* fetch_and_save_preview as one step of a worker thread: the work item is
\* taken and the function runs to its return.  r is what the remote side
\* does, wf the step of the file write that raises, if any.
FetchAndSave(r, wf) ==
    /\ pc = "pool"
    /\ queue # <<>>
    /\ Cardinality(InFlight) < max_workers
    /\ LET t == Head(queue)
       IN  /\ resp' = [resp EXCEPT ![t] = r]
           /\ wfault' = [wfault EXCEPT ![t] = wf]
           /\ previewFile' =
                CASE wf = "open"  -> previewFile
                  [] wf = "write" -> [previewFile EXCEPT ![t] = File(<<>>)]
                  [] OTHER        ->
                       [previewFile EXCEPT ![t] = File(get_table_preview(t, r))]
           /\ wpc' = [wpc EXCEPT ![t] = "finished"]
    /\ queue' = Tail(queue)
    /\ UNCHANGED <<rootDir, tableDir, ddlFile, runVars, histVars, mineVars, queryVars, renderVars, filterVars>>

\* as_completed yields a finished future; future.result() and print(message).
Report(t) ==
    /\ pc = "pool"
    /\ wpc[t] = "finished"
    /\ wpc' = [wpc EXCEPT ![t] = "reported"]
    /\ UNCHANGED <<fsVars, runVars, queue, resp, wfault, histVars, mineVars, queryVars, renderVars, filterVars>>

\* PoolDrained with the summary printed as soon as no work item is waiting.
M_PoolDrained_QueueEmpty ==
    /\ pc = "pool"
    /\ queue = <<>>
    /\ Return("completed")
    /\ UNCHANGED <<fsVars, enable_preview, df, idx, preview_tasks, created_tables,
                   outcome, rfault, poolVars, histVars, mineVars, queryVars, renderVars, filterVars>>

\* Every future was yielded, the executor is shut down: the final summary.
PoolDrained ==
    /\ pc = "pool"
    /\ \A t \in Range(preview_tasks) : wpc[t] = "reported"
    /\ Return("completed")
    /\ UNCHANGED <<fsVars, enable_preview, df, idx, preview_tasks, created_tables,
                   outcome, rfault, poolVars, histVars, mineVars, queryVars, renderVars, filterVars>>

WriteFaults == {"none", "open", "write"}

\* The steps of a run once main has started, for the catalogs cats; every
\* handler (the body of the row loop, a preview task) is one step.
RunStep(cats) ==
    \/ ClientInitOk
    \/ ClientInitFails
    \/ FetchFails
    \/ FetchEmpty
    \/ \E rows \in cats : FetchOk(rows)
    \/ \E rows \in cats : RootMkdirFails(rows)
    \/ SkipRow
    \/ RowMkdirFails
    \/ RowOpenFails
    \/ RowWriteFails
    \/ \E rf \in ReadFaults : RowOk(rf)
    \/ NoTasks
    \/ SubmitAll
    \/ \E r \in Responses, wf \in WriteFaults : FetchAndSave(r, wf)
    \/ \E t \in Tables : Report(t)
    \/ PoolDrained

\* Runs of build-mirror one after the other on the same directory tree.
Next ==
    \/ \E ep \in BOOLEAN : StartRun(ep)
    \/ RunStep(Catalogs)

Spec == Init /\ [][Next]_vars

\* ------------------------------------------------ one run on a given tree

\* The trees the run starts on: empty, or every table mirrored by an earlier
\* run whose preview fetches succeeded.
EmptyTree(t) == [dir |-> FALSE, ddl |-> NoFile, preview |-> NoFile]
MirroredTree(t) ==
    [dir |-> TRUE, ddl |-> File(<<"a">>), preview |-> File(RowsPreview(t))]

InitTree ==
    /\ \E mirrored \in BOOLEAN :
        LET tree(t) == IF mirrored /\ t <= RunRows THEN MirroredTree(t)
                       ELSE EmptyTree(t)
        IN  /\ rootDir = mirrored
            /\ tableDir = [t \in Tables |-> tree(t).dir]
            /\ ddlFile = [t \in Tables |-> tree(t).ddl]
            /\ previewFile = [t \in Tables |-> tree(t).preview]
    /\ pc = "idle"
    /\ enable_preview = TRUE
    /\ df = <<>>
    /\ idx = 0
    /\ preview_tasks = <<>>
    /\ created_tables = 0
    /\ outcome = None
    /\ rfault = None
    /\ queue = <<>>
    /\ wpc = None
    /\ resp = None
    /\ wfault = None
    /\ endReason = "none"
    /\ exitCode = 0
    /\ sameAsPrev = FALSE
    /\ prevCompleted = FALSE
    /\ QueryIdle
    /\ RenderIdle
    /\ FilterIdle
    /\ MineIdle
    /\ jobs = <<>>

NextRun ==
    \/ \E ep \in BOOLEAN : pc = "idle" /\ StartRun(ep)
    \/ RunStep(RunCatalogs)

SpecRun == InitTree /\ [][NextRun]_vars

\* One run on the empty tree.
SpecFresh == Init /\ [][NextRun]_vars

\* ------------------------------------------------- the preview pool alone

\* What preview.sql of a queued table held when the run started: nothing (the
\* table is new) or the trace of a failed fetch.
PoolOldPreview(t) ==
    IF t % 2 = 1 THEN NoFile ELSE File(ErrorPreview(t))

\* The state the row loop leaves for n tables, all of them queued.
InitPool ==
    \E n \in 1..NTables :
        /\ rootDir = TRUE
        /\ tableDir = [t \in Tables |-> t <= n]
        /\ ddlFile = [t \in Tables |-> IF t <= n THEN File(<<"a">>) ELSE NoFile]
        /\ previewFile = [t \in Tables |-> IF t <= n THEN PoolOldPreview(t) ELSE NoFile]
        /\ pc = "submit"
        /\ enable_preview = TRUE
        /\ df = [i \in 1..n |-> Row(i, <<"a">>, FALSE)]
        /\ idx = n
        /\ preview_tasks = [i \in 1..n |-> i]
        /\ created_tables = n
        /\ outcome = [t \in Tables |-> IF t <= n THEN "ok" ELSE "none"]
        /\ rfault = None
        /\ queue = <<>>
        /\ wpc = None
        /\ resp = None
        /\ wfault = None
        /\ endReason = "none"
        /\ exitCode = 0
        /\ sameAsPrev = FALSE
        /\ prevCompleted = FALSE
        /\ QueryIdle
        /\ RenderIdle
        /\ FilterIdle
        /\ MineIdle
        /\ jobs = <<>>
    /\ jobs = <<>>

\* The tasks that got anything but rows and a clean write.
Odd == { t \in Tables : resp[t] \in {"empty", "error"} \/ wfault[t] # "none" }

MayBeOdd(t) == t \in Odd \/ Cardinality(Odd) < MaxOdd

\* The worker threads step by step, in every interleaving.
NextPool ==
    \/ SubmitAll
    \/ WorkerTake
    \/ \E t \in Tables, r \in Responses :
          (r = "rows" \/ MayBeOdd(t)) /\ WorkerFetch(t, r)
    \/ \E t \in Tables, r \in Responses :
          MayBeOdd(t) /\ WorkerOpenFails(t, r)
    \/ \E t \in Tables : WorkerWrite(t)
    \/ \E t \in Tables : MayBeOdd(t) /\ WorkerWriteFails(t)
    \/ \E t \in Tables : Report(t)
    \/ PoolDrained

SpecPool == InitPool /\ [][NextPool]_vars

\* The pool with threads that keep running: a worker that can take a step
\* takes one, a remote call returns, and the control thread is scheduled.
\* The queues in which a task has to wait for a worker hold at least one task
\* more than the pool has threads; the pool that keeps running is checked on
\* queues of up to that length.
InitPoolLive == InitPool /\ Len(preview_tasks) <= max_workers + 1

SpecPoolLive == InitPoolLive /\ [][NextPool]_vars /\ WF_vars(NextPool)


\* ============================================================ mine-usage

\* A record of the usage query: the table, the number of distinct jobs that
\* referenced it, and its query texts (at most ten, distinct, in descending
\* order).
Record(t, n, qs) ==
    [t |-> t, total_queries |-> n, top_queries |-> qs, shape |-> "full"]

\* What else a caller can hand to process_usage_data: an object without
\* "total_queries" (or with one that int() refuses), an object without
\* "table_name", and a value that is not an object.
Shapes == {"full", "no_total", "no_table_name", "not_dict"}
Shaped(r, shape) == [r EXCEPT !.shape = shape]

\* The characters of the name of table t, which is the decimal numeral of t
\* (TableId), each as the digit it stands for: digits compare as their
\* characters do.
RECURSIVE Digits(_)
Digits(n) == IF n < 10 THEN <<n>> ELSE Digits(n \div 10) \o <<n % 10>>

\* a < b for two Python strings: the first character that differs decides,
\* and a proper prefix comes first.
RECURSIVE StrLess(_, _)
StrLess(a, b) ==
    IF b = <<>> THEN FALSE
    ELSE IF a = <<>> THEN TRUE
    ELSE IF Head(a) # Head(b) THEN Head(a) < Head(b)
    ELSE StrLess(Tail(a), Tail(b))

QueryA == <<"q1">>
QueryB == <<"SP", "q2", "LF">>

\* The query texts in descending order of their strings (a space comes
\* before a letter).
QueriesDesc == <<QueryA, QueryB>>

\* A job of the audit log.  qualifies: it was created in the lookback window,
\* is a query, is done without error, and has a text and referenced tables.
\* A referenced table is 0 when it is a system or temporary table, or is not
\* in INFORMATION_SCHEMA.TABLES after the filters, and a table number if not.
Job(j, q, refs, ok) ==
    [job_id |-> j, query |-> q, referenced_tables |-> refs, qualifies |-> ok]

\* queries_by_table joined to tables_list, for table t: one row for each
\* place where a qualifying job references t.
QueryRows(log, t) ==
    { p \in UNION { { <<i, k>> : k \in 1..Len(log[i].referenced_tables) } :
                      i \in 1..Len(log) } :
         /\ log[p[1]].qualifies
         /\ log[p[1]].referenced_tables[p[2]] = t }

\* COUNT(*) in the place of COUNT(DISTINCT job_id).
M_total_queries_Rows(log, t) == Cardinality(QueryRows(log, t))

\* COUNT(DISTINCT queries_by_table.job_id)
total_queries(log, t) ==
    Cardinality({ log[p[1]].job_id : p \in QueryRows(log, t) })

\* ARRAY_AGG(DISTINCT query IGNORE NULLS ORDER BY query DESC LIMIT 10)
top_queries(log, t) ==
    LET found == { log[p[1]].query : p \in QueryRows(log, t) }
        desc == SelectSeq(QueriesDesc, LAMBDA q : q \in found)
    IN  SubSeq(desc, 1, IF Len(desc) < TopQueries THEN Len(desc) ELSE TopQueries)

\* ORDER BY total_queries DESC, table_catalog, table_schema, table_name.
UsageBefore(a, b) ==
    \/ a.total_queries > b.total_queries
    \/ a.total_queries = b.total_queries /\ StrLess(Digits(a.t), Digits(b.t))

\* The records query_information_schema_jobs returns for the audit log: one
\* for each table of tables_list that a row references (GROUP BY, HAVING
\* total_queries > 0), in the order of the ORDER BY.
usage_query(log) ==
    LET referenced ==
            { t \in UNION { Range(log[i].referenced_tables) : i \in 1..Len(log) } :
                 t # 0 /\ total_queries(log, t) > 0 }
        record(t) == Record(t, total_queries(log, t), top_queries(log, t))
        place(t) ==
            1 + Cardinality({ u \in referenced : UsageBefore(record(u), record(t)) })
    IN  [i \in 1..Cardinality(referenced) |->
            record(CHOOSE t \in referenced : place(t) = i)]

\* What a job can be: one reference, the same table twice, two tables, the
\* other table, a table that is filtered out, and a job that does not qualify.
JobKinds ==
    { [query |-> QueryA, referenced_tables |-> <<1>>, qualifies |-> TRUE],
      [query |-> QueryA, referenced_tables |-> <<1, 1>>, qualifies |-> TRUE],
      [query |-> QueryB, referenced_tables |-> <<1, 2>>, qualifies |-> TRUE],
      [query |-> QueryA, referenced_tables |-> <<2, 0>>, qualifies |-> TRUE],
      [query |-> QueryB, referenced_tables |-> <<1>>, qualifies |-> FALSE] }

\* The audit logs of a run of mine-usage: at most MaxRecords jobs, the i-th
\* with the identifier i.
MineLogs ==
    UNION { { [i \in 1..n |-> Job(i, k[i].query, k[i].referenced_tables,
                                  k[i].qualifies)] : k \in [1..n -> JobKinds] }
            : n \in 0..MaxRecords }

\* "\n".join of the lines: a text is the sequence of its lines, and a line is a
\* sequence of tokens.
Line(s) == <<s>>

RECURSIVE QueryBlocks(_, _)
QueryBlocks(queries, i) ==
    IF i > Len(queries) THEN <<>>
    ELSE << <<"-- Query", ToString(i), ":">>, Line("-- ----"), Line(""),
            Strip(queries[i]), Line(""), Line("-- ===="), Line("") >>
         \o QueryBlocks(queries, i + 1)

TotalLine(n) == <<"-- Total queries found:", ToString(n)>>

format_usage_queries(queries) ==
    IF queries = <<>>
    THEN << Line("-- No usage queries found for this table"), Line("") >>
    ELSE << Line("-- Usage queries for this table"), TotalLine(Len(queries)),
            Line("") >>
         \o QueryBlocks(queries, 1)

\* usage_content.replace(old, new): every line equal to old becomes new.
Replace(text, old, new) ==
    [i \in 1..Len(text) |-> IF text[i] = old THEN new ELSE text[i]]

\* The content process_usage_data writes to usage.sql for a record.
usage_content(record) ==
    LET queries == record.top_queries
        total == IF record.shape = "no_total" THEN Len(queries)
                 ELSE record.total_queries
    IN  IF total # 0
        THEN Replace(format_usage_queries(queries), TotalLine(Len(queries)),
                     TotalLine(total)
                        \o <<"(showing top", ToString(Len(queries)), ")">>)
        ELSE format_usage_queries(queries)

\* f"{catalog}.{schema}.{table_name}", a missing "table_name" being "".
full_table_name(r) == IF r.shape = "no_table_name" THEN <<>> ELSE Digits(r.t)

\* KeyLess with the key reduced to -total_queries.
M_KeyLess_ByCount(a, b) == a.total_queries > b.total_queries

\* key(a) < key(b) for key = (-total_queries, full_table_name).
KeyLess(a, b) ==
    \/ a.total_queries > b.total_queries
    \/ /\ a.total_queries = b.total_queries
       /\ StrLess(full_table_name(a), full_table_name(b))

\* isinstance(record, dict) and "total_queries" in record, and int() accepts
\* the value.
Counted(r) == r.shape \in {"full", "no_table_name"}

\* list.sort(key=...) is stable: the place of the k-th record of the list is
\* one more than the number of records whose key is less, or is the same and
\* which come before it in the list.
SortedPlace(list, k) ==
    1 + Cardinality({ j \in 1..Len(list) :
                        \/ KeyLess(list[j], list[k])
                        \/ ~KeyLess(list[k], list[j]) /\ j < k })

\* The records that pass the test, in the order of the input, then sorted.
create_high_usage_tables_list(d) ==
    LET high_usage_tables == SelectSeq(d, Counted)
    IN  [i \in 1..Len(high_usage_tables) |->
            high_usage_tables[CHOOSE k \in 1..Len(high_usage_tables) :
                                 SortedPlace(high_usage_tables, k) = i]]

\* The markdown save_high_usage_tables_list writes.
markdown_lines(high_usage_tables) ==
    LET shown == SubSeq(high_usage_tables, 1,
                        IF Len(high_usage_tables) < TopTables
                        THEN Len(high_usage_tables) ELSE TopTables)
    IN  << Line("# High Usage Tables - Query Analysis"), Line("") >>
        \o IF high_usage_tables = <<>> THEN <<>>
           ELSE << Line("## Top 200 Most Used Tables"), Line("") >>
                \o [i \in 1..Len(shown) |->
                      <<ToString(i), ". **",
                        IF shown[i].shape = "no_table_name" THEN ""
                        ELSE TableId(shown[i].t), "** -",
                        ToString(shown[i].total_queries), "queries">>]
                \o << Line("") >>

\* main() parses the options.
MineStart ==
    /\ mineRun \in Ended
    /\ mineRun' = "config"
    /\ data' = <<>>
    /\ index' = 0
    /\ updated_tables' = 0
    /\ skipped_tables' = 0
    /\ mineEnd' = "none"
    /\ mineExit' = 0
    /\ UNCHANGED <<renderVars, filterVars, queryVars, fsVars, runVars, poolVars, histVars, jobs, usageFile, leaderboard>>

\* process_usage_data returns and main returns 0.
MineReturn(reason) ==
    /\ mineRun' = "done"
    /\ mineEnd' = reason
    /\ mineExit' = 0

\* "except Exception" of main: the error is printed and main returns 1.
MineFails(reason) ==
    /\ mineRun' = "done"
    /\ mineEnd' = reason
    /\ mineExit' = 1

\* get_billing_project() raises: PROJECT_ID is not set.
MineConfigFails ==
    /\ mineRun = "config"
    /\ MineFails("config")
    /\ UNCHANGED <<renderVars, filterVars, queryVars, fsVars, runVars, poolVars, histVars, jobs, usageFile, leaderboard,
                   data, index, updated_tables, skipped_tables>>

MineConfigOk ==
    /\ mineRun = "config"
    /\ mineRun' = "query"
    /\ UNCHANGED <<renderVars, filterVars, queryVars, fsVars, runVars, poolVars, histVars, jobs, usageFile, leaderboard,
                   data, index, updated_tables, skipped_tables, mineEnd, mineExit>>

\* query_information_schema_jobs raises (client or query): re-raised to main.
MineQueryFails ==
    /\ mineRun = "query"
    /\ MineFails("query_failed")
    /\ UNCHANGED <<renderVars, filterVars, queryVars, fsVars, runVars, poolVars, histVars, jobs, usageFile, leaderboard,
                   data, index, updated_tables, skipped_tables>>

\* The start of process_usage_data with the records d: the leaderboard is
\* saved (saved says whether its write goes through; without the root it
\* cannot, and the error is printed only), then the root is looked for.
\* ProcessStart with the error of the write of the leaderboard raised up to
\* main instead of being printed.
M_ProcessStart_SaveErrorRaised(d, saved) ==
    /\ saved => rootDir
    /\ leaderboard' =
          IF saved THEN File(markdown_lines(create_high_usage_tables_list(d)))
          ELSE leaderboard
    /\ IF ~rootDir
       THEN /\ MineFails("no_tables_dir")
            /\ UNCHANGED index
       ELSE IF d = <<>>
       THEN /\ MineReturn("completed")
            /\ UNCHANGED index
       ELSE /\ mineRun' = "records"
            /\ index' = 1
            /\ UNCHANGED <<mineEnd, mineExit>>

ProcessStart(d, saved) ==
    /\ saved => rootDir
    /\ leaderboard' =
          IF saved THEN File(markdown_lines(create_high_usage_tables_list(d)))
          ELSE leaderboard
    /\ IF ~rootDir
       THEN /\ MineReturn("no_tables_dir")
            /\ UNCHANGED index
       ELSE IF d = <<>>
       THEN /\ MineReturn("completed")
            /\ UNCHANGED index
       ELSE /\ mineRun' = "records"
            /\ index' = 1
            /\ UNCHANGED <<mineEnd, mineExit>>

\* The usage query answers and main calls process_usage_data with its
\* records.
MineQueryOk(saved) ==
    /\ mineRun = "query"
    /\ data' = usage_query(jobs)
    /\ ProcessStart(data', saved)
    /\ UNCHANGED <<renderVars, filterVars, queryVars, fsVars, runVars, poolVars, histVars, jobs, usageFile,
                   updated_tables, skipped_tables>>

\* process_usage_data called with the records of data.
ProcessData(saved) ==
    /\ mineRun = "process"
    /\ ProcessStart(data, saved)
    /\ UNCHANGED <<renderVars, filterVars, queryVars, fsVars, runVars, poolVars, histVars, jobs, usageFile, data,
                   updated_tables, skipped_tables>>

\* The record is an object with "table_catalog", "table_schema" and
\* "table_name".
WellFormed(r) == r.shape \in {"full", "no_total"}

\* The loop goes on with the next record, or prints the summary and returns.
NextRecord ==
    IF index < Len(data)
    THEN /\ index' = index + 1
         /\ UNCHANGED <<mineRun, mineEnd, mineExit>>
    ELSE /\ index' = index
         /\ MineReturn("completed")

\* RecordMalformed with the record taken for an object that has every field.
M_RecordMalformed_Written ==
    /\ mineRun = "records"
    /\ ~WellFormed(data[index])
    /\ usageFile' = [usageFile EXCEPT ![data[index].t] =
                                        File(usage_content(data[index]))]
    /\ updated_tables' = updated_tables + 1
    /\ NextRecord
    /\ UNCHANGED <<renderVars, filterVars, queryVars, fsVars, runVars, poolVars, histVars, jobs, leaderboard, data,
                   skipped_tables>>

\* The record is not an object or misses a required field: "Skipping
\* record", continue.
RecordMalformed ==
    /\ mineRun = "records"
    /\ ~WellFormed(data[index])
    /\ skipped_tables' = skipped_tables + 1
    /\ NextRecord
    /\ UNCHANGED <<renderVars, filterVars, queryVars, fsVars, runVars, poolVars, histVars, jobs, usageFile, leaderboard,
                   data, updated_tables>>

\* The table directory does not exist: "Skipping", continue.
RecordSkipped ==
    /\ mineRun = "records"
    /\ WellFormed(data[index])
    /\ ~tableDir[data[index].t]
    /\ skipped_tables' = skipped_tables + 1
    /\ NextRecord
    /\ UNCHANGED <<renderVars, filterVars, queryVars, fsVars, runVars, poolVars, histVars, jobs, usageFile, leaderboard,
                   data, updated_tables>>

\* RecordUpdated with the usage content written to ddl.sql of the table.
M_RecordUpdated_IntoDdl ==
    /\ mineRun = "records"
    /\ WellFormed(data[index])
    /\ tableDir[data[index].t]
    /\ ddlFile' = [ddlFile EXCEPT ![data[index].t] =
                                    File(usage_content(data[index]))]
    /\ updated_tables' = updated_tables + 1
    /\ NextRecord
    /\ UNCHANGED <<renderVars, filterVars, queryVars, rootDir, tableDir, previewFile, usageFile, runVars,
                   poolVars, histVars, jobs, leaderboard, data, skipped_tables>>

\* usage.sql is written.
RecordUpdated ==
    /\ mineRun = "records"
    /\ WellFormed(data[index])
    /\ tableDir[data[index].t]
    /\ usageFile' = [usageFile EXCEPT ![data[index].t] =
                                        File(usage_content(data[index]))]
    /\ updated_tables' = updated_tables + 1
    /\ NextRecord
    /\ UNCHANGED <<renderVars, filterVars, queryVars, fsVars, runVars, poolVars, histVars, jobs, leaderboard, data,
                   skipped_tables>>

\* open(usage_file_path, "w") raises, or the file is opened, which truncates
\* it, and the write raises: "Error processing record", continue.
RecordError(opened) ==
    /\ mineRun = "records"
    /\ WellFormed(data[index])
    /\ tableDir[data[index].t]
    /\ usageFile' = IF opened
                    THEN [usageFile EXCEPT ![data[index].t] = File(<<>>)]
                    ELSE usageFile
    /\ skipped_tables' = skipped_tables + 1
    /\ NextRecord
    /\ UNCHANGED <<renderVars, filterVars, queryVars, fsVars, runVars, poolVars, histVars, jobs, leaderboard, data,
                   updated_tables>>

\* The tree mine-usage starts on: no root, or a root with the directories of
\* some tables.
InitMine ==
    /\ \E dirs \in SUBSET (1..MaxRecords) :
          /\ rootDir \in BOOLEAN
          /\ tableDir = [t \in Tables |-> rootDir /\ t \in dirs]
    /\ ddlFile = [t \in Tables |-> IF tableDir[t] THEN File(<<"a">>) ELSE NoFile]
    /\ previewFile =
          [t \in Tables |-> IF tableDir[t] THEN File(RowsPreview(t)) ELSE NoFile]
    /\ pc = "idle"
    /\ enable_preview = TRUE
    /\ df = <<>>
    /\ idx = 0
    /\ preview_tasks = <<>>
    /\ created_tables = 0
    /\ outcome = None
    /\ rfault = None
    /\ queue = <<>>
    /\ wpc = None
    /\ resp = None
    /\ wfault = None
    /\ endReason = "none"
    /\ exitCode = 0
    /\ sameAsPrev = FALSE
    /\ prevCompleted = FALSE
    /\ QueryIdle
    /\ RenderIdle
    /\ FilterIdle
    /\ MineIdle
    /\ jobs \in MineLogs

\* Runs of mine-usage one after the other on the same tree.
NextMine ==
    \/ MineStart
    \/ MineConfigFails
    \/ MineConfigOk
    \/ MineQueryFails
    \/ \E saved \in BOOLEAN : MineQueryOk(saved)
    \/ RecordSkipped
    \/ RecordUpdated
    \/ \E opened \in BOOLEAN : RecordError(opened)

SpecMine == InitMine /\ [][NextMine]_vars

\* Between two runs time passes: the oldest job of the audit log is no longer
\* within lookback_days of the next run (creation_time >= lookback_date).
WindowMoves ==
    /\ mineRun = "done"
    /\ jobs # <<>>
    /\ jobs' = Tail(jobs)
    /\ UNCHANGED <<renderVars, filterVars, queryVars, fsVars, runVars, poolVars,
                   histVars, usageFile, leaderboard, mineRun, data, index,
                   updated_tables, skipped_tables, mineEnd, mineExit>>

NextWindow ==
    \/ NextMine
    \/ WindowMoves

\* Runs of mine-usage one after the other, each on the audit log of its day.
SpecWindow == InitMine /\ [][NextWindow]_vars

\* ------------------------------------------ process_usage_data alone

\* The records process_usage_data is called with: records of the usage
\* query and records of the other shapes.
ProcessRecords ==
    { Record(1, 2, <<QueryA, QueryB>>), Record(2, 1, <<QueryA>>),
      Shaped(Record(1, 1, <<QueryB>>), "no_total"),
      Shaped(Record(1, 1, <<QueryA>>), "no_table_name"),
      Shaped(Record(2, 1, <<QueryA>>), "not_dict") }

\* A tree as mine-usage finds it and a list of at most MaxRecords records.
InitProcess ==
    /\ \E dirs \in SUBSET (1..MaxRecords) :
          /\ rootDir \in BOOLEAN
          /\ tableDir = [t \in Tables |-> rootDir /\ t \in dirs]
    /\ ddlFile = [t \in Tables |-> IF tableDir[t] THEN File(<<"a">>) ELSE NoFile]
    /\ previewFile =
          [t \in Tables |-> IF tableDir[t] THEN File(RowsPreview(t)) ELSE NoFile]
    /\ pc = "idle"
    /\ enable_preview = TRUE
    /\ df = <<>>
    /\ idx = 0
    /\ preview_tasks = <<>>
    /\ created_tables = 0
    /\ outcome = None
    /\ rfault = None
    /\ queue = <<>>
    /\ wpc = None
    /\ resp = None
    /\ wfault = None
    /\ endReason = "none"
    /\ exitCode = 0
    /\ sameAsPrev = FALSE
    /\ prevCompleted = FALSE
    /\ QueryIdle
    /\ RenderIdle
    /\ FilterIdle
    /\ usageFile = [t \in Tables |-> NoFile]
    /\ leaderboard = NoFile
    /\ mineRun = "process"
    /\ jobs = <<>>
    /\ data \in UNION { [1..n -> ProcessRecords] : n \in 0..MaxRecords }
    /\ index = 0
    /\ updated_tables = 0
    /\ skipped_tables = 0
    /\ mineEnd = "none"
    /\ mineExit = 0

NextProcess ==
    \/ \E saved \in BOOLEAN : ProcessData(saved)
    \/ RecordMalformed
    \/ RecordSkipped
    \/ RecordUpdated
    \/ \E opened \in BOOLEAN : RecordError(opened)

SpecProcess == InitProcess /\ [][NextProcess]_vars

\* ------------------------------------------------ the leaderboard alone

\* The record lists the leaderboard is computed from: every list of at most
\* MaxBoard records, in any order and of any shape, for tables of which two
\* have names whose order is not the order of their numbers, and lists longer
\* than the leaderboard.
BoardRecords ==
    { Record(t, n, <<QueryA>>) : t \in {1, 2, 10}, n \in 1..2 }
       \cup { Shaped(Record(2, 1, <<QueryA>>), "no_total"),
              Shaped(Record(1, 2, <<QueryA>>), "not_dict") }

LongList(n) == [i \in 1..n |-> Record(i, i % 3, <<QueryA>>)]

BoardInputs ==
    UNION { [1..n -> BoardRecords] : n \in 0..MaxBoard }
       \cup { LongList(TopTables + k) : k \in 0..1 }

InitBoard ==
    /\ rootDir = TRUE
    /\ tableDir = [t \in Tables |-> FALSE]
    /\ ddlFile = [t \in Tables |-> NoFile]
    /\ previewFile = [t \in Tables |-> NoFile]
    /\ pc = "idle"
    /\ enable_preview = TRUE
    /\ df = <<>>
    /\ idx = 0
    /\ preview_tasks = <<>>
    /\ created_tables = 0
    /\ outcome = None
    /\ rfault = None
    /\ queue = <<>>
    /\ wpc = None
    /\ resp = None
    /\ wfault = None
    /\ endReason = "none"
    /\ exitCode = 0
    /\ sameAsPrev = FALSE
    /\ prevCompleted = FALSE
    /\ QueryIdle
    /\ RenderIdle
    /\ FilterIdle
    /\ usageFile = [t \in Tables |-> NoFile]
    /\ leaderboard = NoFile
    /\ mineRun = "board"
    /\ jobs = <<>>
    /\ data \in BoardInputs
    /\ index = 0
    /\ updated_tables = 0
    /\ skipped_tables = 0
    /\ mineEnd = "none"
    /\ mineExit = 0

\* save_high_usage_tables_list(create_high_usage_tables_list(data), ...);
\* saved says whether the write goes through (an error is printed only).
SaveBoard(saved) ==
    /\ mineRun = "board"
    /\ mineRun' = "saved"
    /\ leaderboard' =
          IF saved THEN File(markdown_lines(create_high_usage_tables_list(data)))
          ELSE leaderboard
    /\ UNCHANGED <<renderVars, filterVars, queryVars, fsVars, runVars, poolVars, histVars, jobs, usageFile, data, index,
                   updated_tables, skipped_tables, mineEnd, mineExit>>

NextBoard == \E saved \in BOOLEAN : SaveBoard(saved)

SpecBoard == InitBoard /\ [][NextBoard]_vars

\* ------------------------------------------------ the usage query alone

\* The audit logs the usage query is run on: at most MaxJobs entries of any
\* kind, in the order of their job identifiers; two entries can carry the
\* same job identifier.
Logs ==
    UNION { { [i \in 1..n |-> Job(j[i], k[i].query, k[i].referenced_tables,
                                  k[i].qualifies)] :
                 k \in [1..n -> JobKinds],
                 j \in { f \in [1..n -> 1..MaxJobs] :
                            \A i \in 1..(n - 1) : f[i] <= f[i + 1] } }
            : n \in 0..MaxJobs }

\* A root without table directories and an audit log.
InitQuery ==
    /\ rootDir = TRUE
    /\ tableDir = [t \in Tables |-> FALSE]
    /\ ddlFile = [t \in Tables |-> NoFile]
    /\ previewFile = [t \in Tables |-> NoFile]
    /\ pc = "idle"
    /\ enable_preview = TRUE
    /\ df = <<>>
    /\ idx = 0
    /\ preview_tasks = <<>>
    /\ created_tables = 0
    /\ outcome = None
    /\ rfault = None
    /\ queue = <<>>
    /\ wpc = None
    /\ resp = None
    /\ wfault = None
    /\ endReason = "none"
    /\ exitCode = 0
    /\ sameAsPrev = FALSE
    /\ prevCompleted = FALSE
    /\ QueryIdle
    /\ RenderIdle
    /\ FilterIdle
    /\ usageFile = [t \in Tables |-> NoFile]
    /\ leaderboard = NoFile
    /\ mineRun = "query"
    /\ jobs \in Logs
    /\ data = <<>>
    /\ index = 0
    /\ updated_tables = 0
    /\ skipped_tables = 0
    /\ mineEnd = "none"
    /\ mineExit = 0

NextQuery ==
    \/ MineQueryFails
    \/ \E saved \in BOOLEAN : MineQueryOk(saved)
    \/ RecordSkipped

SpecQuery == InitQuery /\ [][NextQuery]_vars

\* ============================================================= run-query

\* str.lower() on the letters the answers are made of.
Lower(text) ==
    [i \in 1..Len(text) |->
        CASE text[i] = "Y" -> "y" [] text[i] = "E" -> "e" [] text[i] = "S" -> "s"
          [] text[i] = "N" -> "n" [] text[i] = "O" -> "o" [] OTHER -> text[i]]

\* What the user can type at the prompt, character by character.
Answers ==
    { <<"y">>, <<"SP", "Y", "E", "S">>, <<"n">>, <<"N", "O", "SP">>, <<>>,
      <<"m">> }

\* response in ["y", "yes"], response in ["n", "no", ""]
SaysYes(answer) == answer \in { <<"y">>, <<"y", "e", "s">> }
SaysNo(answer) == answer \in { <<"n">>, <<"n", "o">>, <<>> }

\* The estimates of a dry run, in GB: none reported, the threshold, just
\* above it, and 150 GB.
Estimates == {0, Threshold, Threshold + 1, 150}

\* The result sets of the query: column names (distinct, as BigQuery
\* requires of a result) and rows.
ResultSets ==
    { Table(<<"a">>, <<>>),
      Table(<<"a", "b">>, << <<"x", "y">> >>),
      Table(<<"b", "a">>, << <<"x", "y">>, <<"x", "z">> >>) }

\* An error raised by to_dataframe(): whether it is a permissions error, and
\* the words of str(df_error).
Error(permission, text) == [permission |-> permission, text |-> text]

\* The errors to_dataframe() can raise: the Storage API refusing the read
\* session, refusals worded otherwise, and errors that are no refusals, one
\* of them naming a column called Permission.
Errors ==
    { Error(TRUE, <<"403", "bigquery.readsessions.create", "denied">>),
      Error(TRUE, <<"403", "Permission", "denied">>),
      Error(TRUE, <<"403", "The", "caller", "does", "not", "have", "permission">>),
      Error(FALSE, <<"Connection", "reset">>),
      Error(FALSE, <<"Could", "not", "convert", "column", "Permission">>) }

\* "bigquery.readsessions.create" in error_msg or "Permission" in error_msg
IsPermissionError(error_msg) ==
    \E i \in 1..Len(error_msg) :
        error_msg[i] \in {"bigquery.readsessions.create", "Permission"}

\* The DataFrame of the fallback: pd.DataFrame of one dict per row, keyed by
\* the column names, or the empty frame with the columns of the schema.
RowDict(columns, row) ==
    [c \in Range(columns) |->
        row[CHOOSE i \in 1..Len(columns) :
               /\ columns[i] = c
               /\ \A j \in 1..Len(columns) : columns[j] = c => j <= i]]

FallbackFrame(res) ==
    LET columns == res.columns
        dicts == [k \in 1..Len(res.rows) |-> RowDict(columns, res.rows[k])]
        \* the keys of a dict in the order of their first insertion
        keys == SelectSeq([i \in 1..Len(columns) |->
                              IF \E j \in 1..(i - 1) : columns[j] = columns[i]
                              THEN "" ELSE columns[i]],
                          LAMBDA c : c # "")
    IN  IF res.rows # <<>>
        THEN Table(keys, [k \in 1..Len(dicts) |->
                             [i \in 1..Len(keys) |-> dicts[k][keys[i]]]])
        ELSE Table(columns, <<>>)

\* main() parses the options: f is --force, o is --output_file.
QueryStart(f, o) ==
    /\ queryRun = "idle"
    /\ queryRun' = "read"
    /\ force' = f
    /\ output_file' = o
    /\ UNCHANGED <<fsVars, runVars, poolVars, histVars, mineVars, renderVars, filterVars, gb_processed,
                   prompts, response, results, retrieval, df_error, frame, resultFile, statsFile,
                   steps, queryEnd, queryExit>>

\* sys.exit(code)
QueryExit(reason, code) ==
    /\ queryRun' = "done"
    /\ queryEnd' = reason
    /\ queryExit' = code

\* read_sql_file: the file cannot be read.
ReadFails ==
    /\ queryRun = "read"
    /\ QueryExit("read_failed", 1)
    /\ UNCHANGED <<fsVars, runVars, poolVars, histVars, mineVars, renderVars, filterVars, force,
                   output_file, gb_processed, prompts, response, results, retrieval, df_error, frame,
                   resultFile, statsFile, steps>>

\* read_sql_file returns the text.
ReadOk ==
    /\ queryRun = "read"
    /\ queryRun' = "client"
    /\ steps' = Append(steps, "READ_SOURCE")
    /\ UNCHANGED <<fsVars, runVars, poolVars, histVars, mineVars, renderVars, filterVars, force,
                   output_file, gb_processed, prompts, response, results, retrieval, df_error, frame,
                   resultFile, statsFile, queryEnd, queryExit>>

\* The client cannot be built.
QueryClientFails ==
    /\ queryRun = "client"
    /\ QueryExit("client", 1)
    /\ UNCHANGED <<fsVars, runVars, poolVars, histVars, mineVars, renderVars, filterVars, force,
                   output_file, gb_processed, prompts, response, results, retrieval, df_error, frame,
                   resultFile, statsFile, steps>>

\* The client is built; "if not args.force" decides what comes next.
QueryClientOk ==
    /\ queryRun = "client"
    /\ queryRun' = IF ~force THEN "dry_run" ELSE "execute"
    /\ UNCHANGED <<fsVars, runVars, poolVars, histVars, mineVars, renderVars, filterVars, force,
                   output_file, gb_processed, prompts, response, results, retrieval, df_error, frame,
                   resultFile, statsFile, steps, queryEnd, queryExit>>

\* perform_dry_run: the dry run job raises.
DryRunFails ==
    /\ queryRun = "dry_run"
    /\ QueryExit("dry_run_failed", 1)
    /\ UNCHANGED <<fsVars, runVars, poolVars, histVars, mineVars, renderVars, filterVars, force,
                   output_file, gb_processed, prompts, response, results, retrieval, df_error, frame,
                   resultFile, statsFile, steps>>

\* perform_dry_run returns the estimate gb.
DryRunOk(gb) ==
    /\ queryRun = "dry_run"
    /\ gb_processed' = gb
    /\ steps' = Append(steps, "DRY_RUN")
    /\ queryRun' = "gate"
    /\ UNCHANGED <<fsVars, runVars, poolVars, histVars, mineVars, renderVars, filterVars, force,
                   output_file, prompts, response, results, retrieval, df_error, frame, resultFile,
                   statsFile, queryEnd, queryExit>>

\* GateWithinLimit without the comparison of the estimate with the limit.
M_GateWithinLimit_NoLimit ==
    /\ queryRun = "gate"
    /\ steps' = Append(steps, "GATE")
    /\ queryRun' = "execute"
    /\ UNCHANGED <<fsVars, runVars, poolVars, histVars, mineVars, renderVars, filterVars, force,
                   output_file, gb_processed, prompts, response, results, retrieval, df_error, frame,
                   resultFile, statsFile, queryEnd, queryExit>>

\* ask_user_confirmation: the estimate is within the limit.
GateWithinLimit ==
    /\ queryRun = "gate"
    /\ ~(gb_processed > Threshold)
    /\ steps' = Append(steps, "GATE")
    /\ queryRun' = "execute"
    /\ UNCHANGED <<fsVars, runVars, poolVars, histVars, mineVars, renderVars, filterVars, force,
                   output_file, gb_processed, prompts, response, results, retrieval, df_error, frame,
                   resultFile, statsFile, queryEnd, queryExit>>

\* GateAnswer with the refusal of the user taken for a consent.
M_GateAnswer_DeclineRuns(raw) ==
    /\ queryRun = "gate"
    /\ gb_processed > Threshold
    /\ prompts < MaxPrompts
    /\ prompts' = prompts + 1
    /\ response' = Lower(Strip(raw))
    /\ IF SaysYes(response') \/ SaysNo(response')
       THEN /\ steps' = Append(steps, "GATE")
            /\ queryRun' = "execute"
            /\ UNCHANGED <<queryEnd, queryExit>>
       ELSE UNCHANGED <<steps, queryRun, queryEnd, queryExit>>
    /\ UNCHANGED <<fsVars, runVars, poolVars, histVars, mineVars, renderVars, filterVars, force,
                   output_file, gb_processed, results, retrieval, df_error, frame,
                   resultFile, statsFile>>

\* ask_user_confirmation: one turn of the loop of the prompt, the user typing
\* raw.
GateAnswer(raw) ==
    /\ queryRun = "gate"
    /\ gb_processed > Threshold
    /\ prompts < MaxPrompts
    /\ prompts' = prompts + 1
    /\ response' = Lower(Strip(raw))
    /\ IF SaysYes(response')
       THEN /\ steps' = Append(steps, "GATE")
            /\ queryRun' = "execute"
            /\ UNCHANGED <<queryEnd, queryExit>>
       ELSE IF SaysNo(response')
       THEN /\ steps' = Append(steps, "GATE")
            /\ QueryExit("declined", 0)
       ELSE UNCHANGED <<steps, queryRun, queryEnd, queryExit>>
    /\ UNCHANGED <<fsVars, runVars, poolVars, histVars, mineVars, renderVars, filterVars, force,
                   output_file, gb_processed, results, retrieval, df_error, frame,
                   resultFile, statsFile>>

\* What main does after run_bigquery_query returned.
AfterExecute ==
    /\ steps' = Append(steps, "EXECUTE")
    /\ queryRun' = IF output_file THEN "results" ELSE "diagnostics"

\* run_bigquery_query: client.query or query_job.result() raises.
ExecuteFails ==
    /\ queryRun = "execute"
    /\ QueryExit("execute_failed", 1)
    /\ UNCHANGED <<fsVars, runVars, poolVars, histVars, mineVars, renderVars, filterVars, force,
                   output_file, gb_processed, prompts, response, results, retrieval, df_error, frame,
                   resultFile, statsFile, steps>>

\* run_bigquery_query: the job answers res and to_dataframe() returns.
ExecuteBulk(res) ==
    /\ queryRun = "execute"
    /\ results' = res
    /\ retrieval' = "bulk"
    /\ frame' = res
    /\ AfterExecute
    /\ UNCHANGED <<df_error, fsVars, runVars, poolVars, histVars, mineVars, renderVars, filterVars, force,
                   output_file, gb_processed, prompts, response, resultFile, statsFile,
                   queryEnd, queryExit>>

\* run_bigquery_query: to_dataframe() raises error.  An error whose text
\* passes the test leads to the fallback, any other is raised again and ends
\* the process.
ExecuteBulkError(res, error) ==
    /\ queryRun = "execute"
    /\ results' = res
    /\ df_error' = error
    /\ LET error_msg == error.text
       IN  IF IsPermissionError(error_msg)
           THEN /\ retrieval' = "rows"
                /\ frame' = FallbackFrame(res)
                /\ AfterExecute
                /\ UNCHANGED <<queryEnd, queryExit>>
           ELSE /\ retrieval' = "failed"
                /\ QueryExit("retrieval_failed", 1)
                /\ UNCHANGED <<frame, steps>>
    /\ UNCHANGED <<fsVars, runVars, poolVars, histVars, mineVars, renderVars, filterVars, force,
                   output_file, gb_processed, prompts, response, resultFile,
                   statsFile>>

\* save_results: makedirs or the writer raises; the handler exits with 1.
SaveResultsFails ==
    /\ queryRun = "results"
    /\ QueryExit("save_failed", 1)
    /\ UNCHANGED <<fsVars, runVars, poolVars, histVars, mineVars, renderVars, filterVars, force,
                   output_file, gb_processed, prompts, response, results, retrieval, df_error, frame,
                   resultFile, statsFile, steps>>

\* save_results writes the DataFrame.
SaveResultsOk ==
    /\ queryRun = "results"
    /\ resultFile' = File(<<frame>>)
    /\ steps' = Append(steps, "PERSIST_RESULTS")
    /\ queryRun' = "diagnostics"
    /\ UNCHANGED <<fsVars, runVars, poolVars, histVars, mineVars, renderVars, filterVars, force,
                   output_file, gb_processed, prompts, response, results, retrieval, df_error, frame,
                   statsFile, queryEnd, queryExit>>

\* save_query_plan_and_stats: the statistics are written (written), or an
\* error is caught and a warning printed; main ends.
SaveStats(written) ==
    /\ queryRun = "diagnostics"
    /\ statsFile' = IF written
                    THEN File(<<"row_count", ToString(Len(frame.rows))>>)
                    ELSE statsFile
    /\ steps' = Append(steps, "PERSIST_DIAGNOSTICS")
    /\ QueryExit("completed", 0)
    /\ UNCHANGED <<fsVars, runVars, poolVars, histVars, mineVars, renderVars, filterVars, force,
                   output_file, gb_processed, prompts, response, results, retrieval, df_error, frame,
                   resultFile>>

NextRunner ==
    \/ \E f, o \in BOOLEAN : QueryStart(f, o)
    \/ ReadFails
    \/ ReadOk
    \/ QueryClientFails
    \/ QueryClientOk
    \/ DryRunFails
    \/ \E gb \in Estimates : DryRunOk(gb)
    \/ GateWithinLimit
    \/ \E raw \in Answers : GateAnswer(raw)
    \/ ExecuteFails
    \/ \E res \in ResultSets : ExecuteBulk(res)
    \/ \E res \in ResultSets, error \in Errors : ExecuteBulkError(res, error)
    \/ SaveResultsFails
    \/ SaveResultsOk
    \/ \E written \in BOOLEAN : SaveStats(written)

\* One run of run-query.
SpecRunner == Init /\ [][NextRunner]_vars

\* ======================================================== preview rendering

\* A str spelled character by character: n times the character c.
Chars(n, c) == [i \in 1..n |-> c]

\* A value of a row: None, or a value and the characters of str(value).
Value(null, str_value) == [null |-> null, str_value |-> str_value]

\* The values a column of a type can hold: NULL, a short value, a value of
\* max_length characters, a value of one character more, and for a STRING a
\* value of two lines.
ValuesOf(field_type) ==
    { Value(TRUE, <<"N", "o", "n", "e">>) } \cup
    CASE field_type = "STRING" ->
            { Value(FALSE, <<"x">>),
              Value(FALSE, Chars(max_length, "x")),
              Value(FALSE, Chars(max_length, "x") \o <<"y">>),
              Value(FALSE, <<"a", "LF", "b">>) }
      [] field_type = "INTEGER" ->
            { Value(FALSE, <<"7">>) }
      [] field_type = "GEOGRAPHY" ->
            { Value(FALSE, <<"P", "O", "I", "N", "T">>),
              Value(FALSE, Chars(max_length, "g") \o <<"h">>) }

FieldTypes == {"STRING", "INTEGER", "GEOGRAPHY"}

\* The schemas: one column of any type, or a STRING and a GEOGRAPHY column.
Schemas == { <<ft>> : ft \in FieldTypes } \cup { <<"STRING", "GEOGRAPHY">> }

\* The rows a table of a schema can hold.
RowsOf(field_types) ==
    { row \in [1..Len(field_types) -> UNION { ValuesOf(ft) : ft \in FieldTypes }] :
        \A i \in 1..Len(field_types) : row[i] \in ValuesOf(field_types[i]) }

\* list_rows(table_id, max_results=10): the tables of at most MaxListed rows,
\* listed whole, and a table of max_results + 1 rows, of which max_results are
\* listed.
Listings ==
    { Listing(1, n, field_types, rows) :
        n \in {0}, field_types \in Schemas, rows \in {<<>>} }
    \cup UNION { UNION { { Listing(1, n, field_types, rows) :
                             rows \in [1..n -> RowsOf(field_types)] } :
                         n \in 1..MaxListed } :
                 field_types \in Schemas }
    \cup { Listing(1, max_results + 1, <<"STRING">>,
                   [k \in 1..max_results |-> <<Value(FALSE, <<"x">>)>>]) }

TruncationMarker ==
    <<".", ".", ".", "SP", "[", "T", "R", "U", "N", "C", "A", "T", "E", "D", "]">>

\* _format_preview_value(value, field_type)
format_preview_value(value, field_type) ==
    IF value.null THEN <<"N", "U", "L", "L">>
    ELSE LET str_value == value.str_value
         IN  IF \/ field_type \in {"GEOGRAPHY", "GEOMETRY"}
                \/ Len(str_value) > max_length
             THEN LET truncated ==
                          SubSeq(str_value, 1,
                                 IF Len(str_value) < max_length
                                 THEN Len(str_value) ELSE max_length)
                  IN  truncated \o TruncationMarker
             ELSE str_value

\* "{!s:<20} ": the text padded with spaces to ColumnWidth characters, and a
\* space.
Padded(text) == text \o Chars(ColumnWidth - Len(text), "SP") \o <<"SP">>

\* "-- " + format_string.format(*cells)
RECURSIVE FormatCells(_)
FormatCells(cells) ==
    IF cells = <<>> THEN <<>> ELSE Padded(Head(cells)) \o FormatCells(Tail(cells))

FormatLine(cells) == <<"--", "SP">> \o FormatCells(cells)

\* The six lines before the rows.  The words of the three comment lines are
\* tokens, the space between two of them is not spelled.
HeaderLines(l) ==
    << <<"--", "Preview", "of", "table:", TableId(l.t)>>,
       <<"--", "Total", "rows", "in", "table:", ToString(l.num_rows)>>,
       <<"--", "Showing", "first", ToString(Len(l.rows)), "rows">>,
       <<>>,
       FormatLine([i \in 1..Len(l.field_types) |-> <<"c", ToString(i)>>]),
       <<"--", "SP">> \o Chars(ColumnWidth * Len(l.field_types), "-") >>

\* "\n".join(preview_lines) + "\n"
RECURSIVE JoinLines(_)
JoinLines(lines) ==
    IF lines = <<>> THEN <<>>
    ELSE IF Len(lines) = 1 THEN Head(lines) \o <<"LF">>
    ELSE Head(lines) \o <<"LF">> \o JoinLines(Tail(lines))

\* get_table or list_rows raises: the text of the error is returned.
PreviewFails ==
    /\ rendered = <<>>
    /\ preview_lines = <<>>
    /\ rendered' = ErrorPreview(listing.t)
    /\ UNCHANGED <<fsVars, runVars, poolVars, histVars, mineVars, queryVars,
                   filterVars, listing, preview_lines>>

\* "if not rows"
PreviewEmpty ==
    /\ rendered = <<>>
    /\ listing.rows = <<>>
    /\ rendered' = NoDataPreview
    /\ UNCHANGED <<fsVars, runVars, poolVars, histVars, mineVars, queryVars,
                   filterVars, listing, preview_lines>>

\* The lines up to the rule under the column names.
PreviewHeader ==
    /\ rendered = <<>>
    /\ listing.rows # <<>>
    /\ preview_lines = <<>>
    /\ preview_lines' = HeaderLines(listing)
    /\ UNCHANGED <<fsVars, runVars, poolVars, histVars, mineVars, queryVars,
                   filterVars, listing, rendered>>

\* One turn of "for row in rows".
PreviewRow ==
    /\ rendered = <<>>
    /\ Len(preview_lines) >= Len(HeaderLines(listing))
    /\ Len(preview_lines) < Len(HeaderLines(listing)) + Len(listing.rows)
    /\ LET row == listing.rows[Len(preview_lines) - Len(HeaderLines(listing)) + 1]
           row_values == [i \in 1..Len(row) |->
                             format_preview_value(row[i], listing.field_types[i])]
       IN  preview_lines' = Append(preview_lines, FormatLine(row_values))
    /\ UNCHANGED <<fsVars, runVars, poolVars, histVars, mineVars, queryVars,
                   filterVars, listing, rendered>>

\* The lines are joined and returned.
PreviewReturn ==
    /\ rendered = <<>>
    /\ listing.rows # <<>>
    /\ Len(preview_lines) = Len(HeaderLines(listing)) + Len(listing.rows)
    /\ rendered' = JoinLines(preview_lines)
    /\ UNCHANGED <<fsVars, runVars, poolVars, histVars, mineVars, queryVars,
                   filterVars, listing, preview_lines>>

InitPreview ==
    /\ rootDir = FALSE
    /\ tableDir = [t \in Tables |-> FALSE]
    /\ ddlFile = [t \in Tables |-> NoFile]
    /\ previewFile = [t \in Tables |-> NoFile]
    /\ pc = "idle"
    /\ enable_preview = TRUE
    /\ df = <<>>
    /\ idx = 0
    /\ preview_tasks = <<>>
    /\ created_tables = 0
    /\ outcome = None
    /\ rfault = None
    /\ queue = <<>>
    /\ wpc = None
    /\ resp = None
    /\ wfault = None
    /\ endReason = "none"
    /\ exitCode = 0
    /\ sameAsPrev = FALSE
    /\ prevCompleted = FALSE
    /\ QueryIdle
    /\ FilterIdle
    /\ MineIdle
    /\ jobs = <<>>
    /\ listing \in Listings
    /\ preview_lines = <<>>
    /\ rendered = <<>>

NextPreview ==
    \/ PreviewFails
    \/ PreviewEmpty
    \/ PreviewHeader
    \/ PreviewRow
    \/ PreviewReturn

\* get_table_preview on one table.
SpecPreview == InitPreview /\ [][NextPreview]_vars

\* ========================================================= catalog filters

\* A table of INFORMATION_SCHEMA.TABLES: its schema and its name, each a
\* sequence of word tokens.
CatalogTable(table_schema, table_name) ==
    [table_schema |-> table_schema, table_name |-> table_name]

\* The tables of the project: prod_x.sales, staging_x.sales, x_prod_.sales
\* and prod_x.fact_sales.
CatalogTables ==
    { CatalogTable(<<"prod_", "x">>, <<"sales">>),
      CatalogTable(<<"staging_", "x">>, <<"sales">>),
      CatalogTable(<<"x_", "prod_">>, <<"sales">>),
      CatalogTable(<<"prod_", "x">>, <<"fact_", "sales">>) }

\* The filters a caller passes: None, the empty string, and the expressions
\* ^prod_, prod_, ^sales, sales and ^fact_.
Filters ==
    { NoFilter, Filter(FALSE, <<>>) }
       \cup { Filter(FALSE, text) :
                text \in { <<"^", "prod_">>, <<"prod_">>, <<"^", "sales">>,
                           <<"sales">>, <<"^", "fact_">> } }

\* "if dataset_filter_regex": None and the empty string are false.
Truthy(filter) == ~filter.none /\ filter.text # <<>>

\* REGEXP_CONTAINS(value, regex) for an expression that is a literal, anchored
\* at the start by ^ or not: a partial match.
REGEXP_CONTAINS(value, regex) ==
    IF regex # <<>> /\ Head(regex) = "^"
    THEN StartsWith(value, Tail(regex))
    ELSE \E i \in 0..(Len(value) - Len(regex)) :
             SubSeq(value, i + 1, i + Len(regex)) = regex

\* where_conditions joined by OR.
M_where_clause_Or(tab, dataset_filter, table_filter) ==
    \/ ~Truthy(dataset_filter) /\ ~Truthy(table_filter)
    \/ Truthy(dataset_filter) /\ REGEXP_CONTAINS(tab.table_schema, dataset_filter.text)
    \/ Truthy(table_filter) /\ REGEXP_CONTAINS(tab.table_name, table_filter.text)

\* The WHERE clause of the catalog query: the conditions of the filters that
\* are given, joined by AND; no WHERE clause when none is given.
where_clause(tab, dataset_filter, table_filter) ==
    /\ Truthy(dataset_filter) =>
          REGEXP_CONTAINS(tab.table_schema, dataset_filter.text)
    /\ Truthy(table_filter) =>
          REGEXP_CONTAINS(tab.table_name, table_filter.text)

\* WHERE 1=1 {dataset_filter_clause} {table_filter_clause}
tables_list_where(tab, dataset_filter, table_filter) ==
    /\ TRUE
    /\ IF Truthy(dataset_filter)
       THEN REGEXP_CONTAINS(tab.table_schema, dataset_filter.text) ELSE TRUE
    /\ IF Truthy(table_filter)
       THEN REGEXP_CONTAINS(tab.table_name, table_filter.text) ELSE TRUE

\* fetch_tables_from_bigquery returns the rows of the catalog query.
FetchTables ==
    /\ ~fetched.done
    /\ fetched' = Fetched({ tab \in CatalogTables :
                              where_clause(tab, dataset_filter_regex,
                                           table_filter_regex) })
    /\ UNCHANGED <<fsVars, runVars, poolVars, histVars, mineVars, queryVars,
                   renderVars, dataset_filter_regex, table_filter_regex,
                   tables_list>>

\* query_information_schema_jobs: tables_list of the usage query.
ListTables ==
    /\ ~tables_list.done
    /\ tables_list' = Fetched({ tab \in CatalogTables :
                                  tables_list_where(tab, dataset_filter_regex,
                                                    table_filter_regex) })
    /\ UNCHANGED <<fsVars, runVars, poolVars, histVars, mineVars, queryVars,
                   renderVars, dataset_filter_regex, table_filter_regex,
                   fetched>>

InitFilter ==
    /\ rootDir = FALSE
    /\ tableDir = [t \in Tables |-> FALSE]
    /\ ddlFile = [t \in Tables |-> NoFile]
    /\ previewFile = [t \in Tables |-> NoFile]
    /\ pc = "idle"
    /\ enable_preview = TRUE
    /\ df = <<>>
    /\ idx = 0
    /\ preview_tasks = <<>>
    /\ created_tables = 0
    /\ outcome = None
    /\ rfault = None
    /\ queue = <<>>
    /\ wpc = None
    /\ resp = None
    /\ wfault = None
    /\ endReason = "none"
    /\ exitCode = 0
    /\ sameAsPrev = FALSE
    /\ prevCompleted = FALSE
    /\ QueryIdle
    /\ RenderIdle
    /\ MineIdle
    /\ jobs = <<>>
    /\ dataset_filter_regex \in Filters
    /\ table_filter_regex \in Filters
    /\ fetched = NotFetched
    /\ tables_list = NotFetched

NextFilter ==
    \/ FetchTables
    \/ ListTables

\* The two queries on the catalog, for every pair of filters.
SpecFilter == InitFilter /\ [][NextFilter]_vars

\* ================================================================ claims

BeginsWithSentinel(f) == f.exists /\ StartsWith(f.data, ErrorSentinel)

\* The row of the catalog that names table t.
RowOf(t) == df[CHOOSE i \in 1..Len(df) : df[i].t = t]

\* The text does not read back from a file as it was written.
ReadsBackChanged(d) == ReadText(d) # d

\* C1: when the loop processes the row of a table whose ddl.sql, as the
\* previous run left it, differs from the definition text of this run, the
\* preview of the table is queued (previews enabled), whatever preview.sql
\* holds.
C1_ChangedSchemaQueuesPreview ==
    [][ \A t \in Tables :
          ( /\ pc = "sync"
            /\ df[idx].t = t
            /\ outcome'[t] = "ok"
            /\ enable_preview
            /\ ddlFile[t].exists
            /\ Strip(ReadText(ddlFile[t].data)) # Strip(df[idx].ddl) )
          => t \in Range(preview_tasks') ]_vars

\* C2: a table whose preview.sql begins with the error sentinel when a run
\* with previews enabled processes its row has its preview queued by that run.
\* (Before the pool starts preview.sql is as the run found it.)
C2_FailedPreviewQueuedAgain ==
    \A t \in Tables :
        ( /\ pc \in {"sync", "submit"}
          /\ outcome[t] = "ok"
          /\ enable_preview
          /\ BeginsWithSentinel(previewFile[t]) )
        => t \in Range(preview_tasks)

\* A run that repeats the previous one queues again the preview that failed.
C2_Witness ==
    \E t \in Tables :
        /\ pc = "submit"
        /\ prevCompleted /\ sameAsPrev
        /\ outcome[t] = "ok"
        /\ enable_preview
        /\ BeginsWithSentinel(previewFile[t])
        /\ t \in Range(preview_tasks)

Finished == {"finished", "reported"}

\* C4 as stated: a task that met any error (remote, rendering, file write)
\* leaves a preview.sql that exists and begins with the error sentinel.
C4_AnyErrorLeavesSentinel ==
    \A t \in Tables :
        (wpc[t] \in Finished /\ (resp[t] = "error" \/ wfault[t] # "none"))
            => BeginsWithSentinel(previewFile[t])

\* C4 as amended: a task whose remote fetch or rendering failed and whose file
\* write did not leaves a preview.sql that begins with the error sentinel;
\* whatever fails, the task returns a result and the run ends with its summary
\* and exit code 0.
C4_RemoteErrorLeavesSentinel ==
    /\ \A t \in Tables :
          (wpc[t] \in Finished /\ resp[t] = "error" /\ wfault[t] = "none")
              => BeginsWithSentinel(previewFile[t])
    /\ pc = "done" =>
          /\ \A t \in Range(preview_tasks) : wpc[t] = "reported"
          /\ endReason = "completed" /\ exitCode = 0

\* A task whose remote fetch failed has written the sentinel; its table had no
\* preview.sql before.
C4_Witness ==
    \E t \in Tables :
        /\ wpc[t] = "finished"
        /\ resp[t] = "error"
        /\ wfault[t] = "none"
        /\ ~PoolOldPreview(t).exists
        /\ BeginsWithSentinel(previewFile[t])

\* C5: in every state (the process can be terminated in any), each preview.sql
\* is absent, as the run found it, or a complete text of get_table_preview,
\* and each ddl.sql is absent or complete.
C5_ArtifactsAreWhole ==
    \A t \in Tables :
        /\ previewFile[t] \in
              {NoFile, PoolOldPreview(t)}
                 \cup { File(get_table_preview(t, r)) : r \in Responses }
        /\ ddlFile[t] \in {NoFile} \cup { File(Strip(d)) : d \in DdlTexts }

\* C6: at most 4 tasks are in the hands of worker threads.
C6_AtMostFourInFlight == Cardinality(InFlight) <= 4

\* Four tasks are being executed and a fifth waits in the queue.
C6_Witness == Cardinality(InFlight) = 4 /\ queue # <<>>

\* What preview.sql of a dispatched table holds once its task has returned:
\* a function of what the remote side answered to this task and of the fault
\* this task met.
ExpectedPreview(t) ==
    CASE wfault[t] = "open"  -> PoolOldPreview(t)
      [] wfault[t] = "write" -> File(<<>>)
      [] OTHER               -> File(get_table_preview(t, resp[t]))

\* C7: no table is queued twice; a preview.sql is touched only by the task of
\* its table, so it is as the run found it until that task runs and as that
\* task alone leaves it afterwards, in every interleaving; no ddl.sql is
\* touched; and the run ends when every task was reported, whatever the order.
C7_PoolOrderIndependent ==
    /\ \A i, j \in 1..Len(preview_tasks) :
          i # j => preview_tasks[i] # preview_tasks[j]
    /\ \A t \in Tables :
          /\ wpc[t] \in {"none", "queued", "fetch"} =>
                previewFile[t] =
                    IF t \in Range(preview_tasks) THEN PoolOldPreview(t) ELSE NoFile
          /\ wpc[t] \in Finished => previewFile[t] = ExpectedPreview(t)
          /\ ddlFile[t] =
                IF t \in Range(preview_tasks) THEN File(<<"a">>) ELSE NoFile
    /\ pc = "done" => \A t \in Range(preview_tasks) : wpc[t] = "reported"

\* A task queued later has returned and was reported while one queued before
\* it is still with its worker.
C7_Witness ==
    \E t1, t2 \in Range(preview_tasks) :
        /\ t1 < t2
        /\ wpc[t1] = "fetch"
        /\ wpc[t2] = "reported"
        /\ resp[t2] # "rows"
        /\ previewFile[t2] = ExpectedPreview(t2)

\* C8: when the loop is over every row was visited, whether or not an earlier
\* row failed: a row with missing data was skipped, and a row processed
\* without error has its directory, its ddl.sql written with the (stripped)
\* definition text, and its preview queued exactly when should_update_preview
\* asks for it.
C8_RowFailureDoesNotAbort ==
    pc = "submit" =>
        \A i \in 1..Len(df) :
            LET t == df[i].t
            IN  /\ outcome[t] # "none"
                /\ df[i].na <=> outcome[t] = "skipped"
                /\ outcome[t] = "ok" =>
                      /\ tableDir[t]
                      /\ ddlFile[t] = File(Strip(df[i].ddl))
                      /\ (t \in Range(preview_tasks)) <=>
                            /\ enable_preview
                            /\ should_update_preview(ddlFile[t], previewFile[t],
                                                     Strip(df[i].ddl), rfault[t])

\* The first row failed and the second was processed and queued.
C8_Witness ==
    /\ pc = "submit"
    /\ Len(df) >= 2
    /\ outcome[df[1].t] = "error"
    /\ outcome[df[2].t] = "ok"
    /\ ddlFile[df[2].t] = File(Strip(df[2].ddl))
    /\ df[2].t \in Range(preview_tasks)

\* C9: a run whose catalog query fails is made of the steps that lead to the
\* client, to the query and to the return after the failure; none of them
\* changes the tree or queues a task.
C9_FetchFailureTouchesNothing ==
    [][ (pc' \in {"client", "fetch"} \/ (pc' = "done" /\ endReason' = "fetch_failed"))
          => (UNCHANGED fsVars /\ preview_tasks' = <<>> /\ queue' = <<>>) ]_vars

\* A run on an empty tree ended by the failure of the catalog query: the root
\* was not created.
C9_Witness ==
    /\ pc = "done"
    /\ endReason = "fetch_failed"
    /\ ~rootDir
    /\ preview_tasks = <<>>

\* C10: when a command has ended its exit code is non-zero exactly when the
\* run hit a fatal error: for build-mirror the client that cannot be built
\* (configuration), the catalog query that fails, or the root that cannot be
\* created; for mine-usage the missing configuration or the failed usage
\* query.  Rows and records that failed do not count.
C10_ExitCodeTellsFatal ==
    /\ pc = "done" =>
          (exitCode # 0 <=> endReason \in {"client", "fetch_failed", "root_mkdir"})
    /\ mineRun = "done" =>
          (mineExit # 0 <=> mineEnd \in {"config", "query_failed"})

\* How many times r occurs in the sequence s.
Count(s, r) == Cardinality({ i \in 1..Len(s) : s[i] = r })

\* The lines of the leaderboard that rank a table: what follows the title, a
\* blank line, the heading and a blank line, but for the last blank line.
RankLines(text) == IF Len(text) <= 2 THEN <<>> ELSE SubSeq(text, 5, Len(text) - 1)

C12_LeaderboardListsMirroredTables ==
    leaderboard.exists =>
        \A i \in 1..Len(RankLines(leaderboard.data)) :
            \E t \in Tables :
                /\ tableDir[t]
                /\ RankLines(leaderboard.data)[i][3] = TableId(t)

\* The identifiers of the qualifying jobs of the audit log that reference t.
JobIds(t) ==
    { jobs[i].job_id : i \in { k \in 1..Len(jobs) :
                                 /\ jobs[k].qualifies
                                 /\ t \in Range(jobs[k].referenced_tables) } }

\* C13: once the usage query has answered, its records are one for each
\* table that a qualifying job references, total_queries of the record being
\* the number of distinct identifiers of these jobs, however many rows carry
\* them; the records are in descending order of total_queries, and so are
\* the ranked lines of the leaderboard.
C13_TotalCountsDistinctJobs ==
    (mineRun \in {"records", "done"} /\ mineEnd # "query_failed") =>
        /\ \A t \in 1..NTables :
              LET records == { i \in 1..Len(data) : data[i].t = t }
              IN  IF JobIds(t) = {} THEN records = {}
                  ELSE /\ Cardinality(records) = 1
                       /\ \A i \in records :
                             data[i].total_queries = Cardinality(JobIds(t))
        /\ \A i \in 1..Len(data) : data[i].t \in 1..NTables
        /\ \A i, j \in 1..Len(data) :
              i < j => data[i].total_queries >= data[j].total_queries
        /\ leaderboard.exists =>
              /\ Len(RankLines(leaderboard.data)) = Len(data)
              /\ \A i \in 1..Len(data) :
                    RankLines(leaderboard.data)[i][3] = TableId(data[i].t)

\* Three rows reference table 1 and carry two job identifiers, one job
\* references table 2: the counts are 2 and 1 and the leaderboard ranks table
\* 1, then table 2.
C13_Witness ==
    /\ mineRun = "done"
    /\ Cardinality(QueryRows(jobs, 1)) = 3
    /\ Cardinality(JobIds(1)) = 2
    /\ Cardinality(JobIds(2)) = 1
    /\ Len(data) = 2
    /\ data[1].t = 1 /\ data[1].total_queries = 2
    /\ data[2].t = 2 /\ data[2].total_queries = 1
    /\ leaderboard.exists
    /\ RankLines(leaderboard.data)[1][3] = TableId(1)
    /\ RankLines(leaderboard.data)[2][3] = TableId(2)

C15_MinerLeavesMirrorFiles ==
    \A t \in Tables :
        /\ ddlFile[t] = IF tableDir[t] THEN File(<<"a">>) ELSE NoFile
        /\ previewFile[t] = IF tableDir[t] THEN File(RowsPreview(t)) ELSE NoFile

\* A run that wrote the leaderboard and usage.sql of a table whose ddl.sql
\* and preview.sql exist.
C15_Witness ==
    /\ mineRun = "done" /\ mineEnd = "completed"
    /\ leaderboard.exists
    /\ \E t \in Tables :
          /\ usageFile[t].exists /\ usageFile[t].data # <<>>
          /\ ddlFile[t] = File(<<"a">>)
          /\ previewFile[t] = File(RowsPreview(t))

\* C16: when the estimate of the dry run is above the threshold and the user
\* declines, the process ends with exit code 0 without having executed the
\* query, and neither the result file nor the statistics file is written.
C16_DeclinedGateRunsNothing ==
    (gb_processed > Threshold /\ prompts > 0 /\ SaysNo(response)) =>
        /\ queryRun = "done"
        /\ queryEnd = "declined"
        /\ queryExit = 0
        /\ "EXECUTE" \notin Range(steps)
        /\ results = NoTable
        /\ resultFile = NoFile
        /\ statsFile = NoFile

C16_Witness ==
    /\ gb_processed = 150
    /\ output_file
    /\ response = <<"n", "o">>
    /\ queryRun = "done"
    /\ queryExit = 0

\* C17: once the query was executed, on the bulk path or on the fallback path,
\* the process does not end before PERSIST_DIAGNOSTICS was run, also when
\* persisting the results failed.
C17_DiagnosticsAfterExecute ==
    (queryRun = "done" /\ "EXECUTE" \in Range(steps)) =>
        "PERSIST_DIAGNOSTICS" \in Range(steps)

\* The place of a step in the linear order of the runner.
StepPlace(step) ==
    CASE step = "READ_SOURCE" -> 1
      [] step = "DRY_RUN" -> 2
      [] step = "GATE" -> 3
      [] step = "EXECUTE" -> 4
      [] step = "PERSIST_RESULTS" -> 5
      [] step = "PERSIST_DIAGNOSTICS" -> 6

\* C18: the steps of a run follow the order READ_SOURCE, DRY_RUN, GATE,
\* EXECUTE, PERSIST_RESULTS, PERSIST_DIAGNOSTICS, and a run that executed the
\* query completed a dry run before, with or without --force.
C18_DryRunBeforeExecute ==
    /\ \A i, j \in 1..Len(steps) : i < j => StepPlace(steps[i]) < StepPlace(steps[j])
    /\ \A j \in 1..Len(steps) :
          steps[j] = "EXECUTE" => \E i \in 1..(j - 1) : steps[i] = "DRY_RUN"

\* C19: when to_dataframe() fails with a permissions error the rows are read
\* one by one into a frame with the rows and columns of the result and the run
\* goes on to persist them; when it fails with any other error the process ends
\* with a non-zero exit code and writes neither results nor statistics.
C19_FallbackOnPermissionError ==
    retrieval \in {"rows", "failed"} =>
        IF df_error.permission
        THEN /\ retrieval = "rows"
             /\ frame = results
             /\ "EXECUTE" \in Range(steps)
             /\ queryEnd # "retrieval_failed"
        ELSE /\ retrieval = "failed"
             /\ queryRun = "done"
             /\ queryExit # 0
             /\ resultFile = NoFile
             /\ statsFile = NoFile

\* The places of the line feeds of a text, and its k-th line.
LineEnds(text) == { i \in 1..Len(text) : text[i] = "LF" }

LineEnd(text, k) ==
    IF k = 0 THEN 0
    ELSE CHOOSE i \in LineEnds(text) :
             Cardinality({ j \in LineEnds(text) : j <= i }) = k

TextLine(text, k) == SubSeq(text, LineEnd(text, k - 1) + 1, LineEnd(text, k) - 1)

\* The text is a preview with rows.
HasRows(text) == StartsWith(text, <<"--", "Preview", "of", "table:">>)

\* N of the line "-- Showing first N rows", and the number of lines that
\* follow the rule under the column names.
DeclaredRows(text) == TextLine(text, 3)[4]
BodyRows(text) == Cardinality(LineEnds(text)) - 6

\* What a rendered value may be: the first max_length characters and the
\* marker for a value that is longer, the value itself for any other value that
\* is not of a geospatial type; nothing is said of NULL and of a short
\* geospatial value.
RenderedAs(value, field_type) ==
    IF ~value.null /\ Len(value.str_value) > max_length
    THEN { SubSeq(value.str_value, 1, max_length) \o TruncationMarker }
    ELSE IF ~value.null /\ field_type \notin {"GEOGRAPHY", "GEOMETRY"}
    THEN { value.str_value }
    ELSE { <<"N", "U", "L", "L">>, value.str_value,
           value.str_value \o TruncationMarker }

\* Every line of a row that was built holds the values of the row, each
\* truncated or whole as RenderedAs says.
ValuesRendered ==
    \A k \in 1..(Len(preview_lines) - 6) :
        LET row == listing.rows[k]
            types == listing.field_types
        IN  \E cells \in [1..Len(row) ->
                            UNION { RenderedAs(row[i], types[i]) : i \in 1..Len(row) }] :
                /\ \A i \in 1..Len(row) : cells[i] \in RenderedAs(row[i], types[i])
                /\ preview_lines[6 + k] = FormatLine(cells)

\* The header of a returned preview declares as many rows as its body has
\* lines.
DeclaredIsBody ==
    HasRows(rendered) => DeclaredRows(rendered) = ToString(BodyRows(rendered))

\* C20: in a rendered preview a value longer than 100 characters is its first
\* 100 characters followed by "... [TRUNCATED]", a value of at most 100
\* characters that is not geospatial is rendered as it is, and the number of
\* rows the header declares is the number of data rows of the body, with and
\* without truncated values.
C20_TruncationKeepsRowCount == ValuesRendered /\ DeclaredIsBody

\* A table satisfies a filter that is given when the filter matches the value;
\* a filter that is None or empty is satisfied by every table.
Satisfies(value, filter) ==
    (filter.none \/ filter.text = <<>>) \/ REGEXP_CONTAINS(value, filter.text)

\* C21: the catalog fetch and the table list of the usage query return a table
\* exactly when it satisfies the schema filter and the table filter; a filter
\* that is None or empty excludes nothing. With the dataset filter ^prod_ and
\* no table filter prod_x.sales is returned and staging_x.sales is not.
C21_FiltersConjunctive ==
    \A answer \in {fetched, tables_list} :
        answer.done =>
            /\ \A tab \in CatalogTables :
                  tab \in answer.tables <=>
                      /\ Satisfies(tab.table_schema, dataset_filter_regex)
                      /\ Satisfies(tab.table_name, table_filter_regex)
            /\ (/\ dataset_filter_regex = Filter(FALSE, <<"^", "prod_">>)
                /\ table_filter_regex = NoFilter) =>
                  /\ CatalogTable(<<"prod_", "x">>, <<"sales">>) \in answer.tables
                  /\ CatalogTable(<<"staging_", "x">>, <<"sales">>) \notin answer.tables

C21_Witness ==
    /\ dataset_filter_regex = Filter(FALSE, <<"^", "prod_">>)
    /\ table_filter_regex = NoFilter
    /\ fetched.done
    /\ tables_list.done
    /\ CatalogTable(<<"prod_", "x">>, <<"sales">>) \in fetched.tables
    /\ CatalogTable(<<"staging_", "x">>, <<"sales">>) \notin tables_list.tables

\* The tables the catalog of this run names.
Fetched_tables == { df[i].t : i \in 1..Len(df) }

\* C22 as stated: after a run with previews on the empty tree, every table
\* the catalog returned was queued once and has its ddl.sql and its
\* preview.sql.
C22_EveryTableMirrored ==
    (pc = "done" /\ endReason = "completed" /\ enable_preview) =>
        \A t \in Fetched_tables :
            /\ Count(preview_tasks, t) = 1
            /\ ddlFile[t].exists
            /\ previewFile[t].exists

\* C22, amended: after a run with previews on the empty tree, every table
\* whose row was processed without error was queued once and has its ddl.sql,
\* and has its preview.sql unless the file could not be opened; a table whose
\* row was skipped or failed was not queued and has no preview.sql.
C22_EveryProcessedTableMirrored ==
    (pc = "done" /\ endReason = "completed" /\ enable_preview) =>
        \A t \in Fetched_tables :
            IF outcome[t] = "ok"
            THEN /\ Count(preview_tasks, t) = 1
                 /\ ddlFile[t].exists
                 /\ previewFile[t].exists <=> wfault[t] # "open"
            ELSE /\ Count(preview_tasks, t) = 0
                 /\ ~previewFile[t].exists

C22_Witness ==
    /\ pc = "done"
    /\ endReason = "completed"
    /\ enable_preview
    /\ Len(df) = 2
    /\ Len(preview_tasks) = 2
    /\ \A t \in 1..2 : ddlFile[t].exists /\ previewFile[t] = File(RowsPreview(t))

\* C23: for every row of the catalog that the run processed without error,
\* ddl.sql holds the definition text of the row as the catalog returned it,
\* leading and trailing whitespace included.
C23_DdlVerbatim ==
    \A t \in Tables :
        outcome[t] = "ok" => ddlFile[t] = File(RowOf(t).ddl)

\* The counts the final message of create_table_structure holds:
\* "Completed! Created {created_tables} table directories".
final_summary == [created |-> created_tables]

\* The sum of the counts of a summary.
RECURSIVE SumOver(_, _)
SumOver(f, keys) ==
    IF keys = {} THEN 0
    ELSE LET k == CHOOSE x \in keys : TRUE
         IN  f[k] + SumOver(f, keys \ {k})

\* C24: a run that got past the catalog fetch ends by reporting the counts
\* created, updated, skipped and errored; every row of the catalog is in
\* exactly one of them, so they sum to the number of rows, and the rows whose
\* processing failed are in the errored count.
C24_SummaryCountsEveryEntry ==
    (pc = "done" /\ endReason = "completed") =>
        /\ SumOver(final_summary, DOMAIN final_summary) = Len(df)
        /\ DOMAIN final_summary = {"created", "updated", "skipped", "errored"}
        /\ final_summary.errored =
              Cardinality({ t \in Fetched_tables : outcome[t] = "error" })

\* The record of the current run for table t, if there is one.
HasRecord(t) == \E i \in 1..Len(data) : data[i].t = t
RecordOf(t) == data[CHOOSE i \in 1..Len(data) : data[i].t = t]

\* C25: after a run of mine-usage, usage.sql of every table directory holds
\* the rendering of the record of this run (when no record was skipped), and a
\* table without a record in this run shows nothing of an earlier run.
C25_UsageOfThisRunOnly ==
    (mineRun = "done" /\ mineEnd = "completed") =>
        \A t \in Tables :
            tableDir[t] =>
                IF HasRecord(t)
                THEN skipped_tables = 0 =>
                        usageFile[t] = File(usage_content(RecordOf(t)))
                ELSE ~usageFile[t].exists \/ usageFile[t].data = <<>>

\* C26: every task that was queued is in the end reported by the control
\* thread (the run reaches its final summary, a queued task is one of
\* preview_tasks, and at the final summary every task of preview_tasks was
\* reported); a task that was reported is not run or reported again; in every
\* order of completion and whatever tasks fail.
C26_EveryTaskReportedOnce ==
    /\ <>(pc = "done")
    /\ [](\A t \in Tables : wpc[t] = "queued" => t \in Range(preview_tasks))
    /\ [][\A t \in Tables :
             /\ wpc[t] = "reported" => wpc'[t] = "reported"
             /\ (wpc[t] # "reported" /\ wpc'[t] = "reported") =>
                   (wpc[t] = "finished" /\ pc = "pool")]_vars
    /\ [](pc = "done" => \A t \in Range(preview_tasks) : wpc[t] = "reported")

C26_Witness ==
    /\ pc = "done"
    /\ Len(preview_tasks) = 3
    /\ resp[1] = "rows"
    /\ wfault[2] = "open"
    /\ \A t \in Range(preview_tasks) : wpc[t] = "reported"

\* C27 as stated: ddl.sql is written before should_update_preview is called,
\* so the preview of a table whose row was processed is queued exactly when
\* its preview.sql is absent, unreadable or begun by the error sentinel.
\* (Before the pool starts preview.sql is as the run found it.)
C27_DecisionOnPreviewOnly ==
    \A t \in Tables :
        (pc \in {"sync", "submit"} /\ outcome[t] = "ok" /\ enable_preview) =>
            (t \in Range(preview_tasks) <=>
                \/ ~previewFile[t].exists
                \/ rfault[t] = "preview"
                \/ BeginsWithSentinel(previewFile[t]))

\* C27 as amended: the preview is queued exactly when preview.sql is absent,
\* unreadable or begun by the error sentinel, or when ddl.sql, just written,
\* cannot be read or does not read back as the definition text (the text
\* holds a carriage return).
C27_DecisionOnPreviewAndReadBack ==
    \A t \in Tables :
        (pc \in {"sync", "submit"} /\ outcome[t] = "ok" /\ enable_preview) =>
            (t \in Range(preview_tasks) <=>
                \/ ~previewFile[t].exists
                \/ rfault[t] # "none"
                \/ BeginsWithSentinel(previewFile[t])
                \/ ReadsBackChanged(Strip(RowOf(t).ddl)))

\* A later run leaves alone the preview of a table whose definition text
\* changed since the preview was fetched.
C27_Witness ==
    \E t \in Tables :
        /\ pc = "submit"
        /\ prevCompleted
        /\ outcome[t] = "ok"
        /\ enable_preview
        /\ previewFile[t] = File(RowsPreview(t))
        /\ ddlFile[t] = File(<<"b">>)
        /\ t \notin Range(preview_tasks)

\* C28 as stated: the preview fetched from a table without rows is the "no
\* data" text, which does not begin with the error sentinel, and a later run
\* that finds this text in preview.sql does not queue the table again.
C28_EmptyPreviewNeverRefetched ==
    \A t \in Tables :
        /\ (wpc[t] = "finished" /\ resp[t] = "empty" /\ wfault[t] = "none") =>
               /\ previewFile[t] = File(NoDataPreview)
               /\ ~BeginsWithSentinel(previewFile[t])
        /\ ( /\ pc \in {"sync", "submit"}
             /\ outcome[t] = "ok"
             /\ enable_preview
             /\ previewFile[t] = File(NoDataPreview) ) =>
               t \notin Range(preview_tasks)

\* C28 as amended: the later run does not queue the table again when it can
\* read preview.sql and ddl.sql and the definition text reads back as written.
C28_EmptyPreviewKeptWhenReadable ==
    \A t \in Tables :
        /\ (wpc[t] = "finished" /\ resp[t] = "empty" /\ wfault[t] = "none") =>
               /\ previewFile[t] = File(NoDataPreview)
               /\ ~BeginsWithSentinel(previewFile[t])
        /\ ( /\ pc \in {"sync", "submit"}
             /\ outcome[t] = "ok"
             /\ enable_preview
             /\ previewFile[t] = File(NoDataPreview) ) =>
               (t \in Range(preview_tasks) <=>
                    \/ rfault[t] # "none"
                    \/ ReadsBackChanged(Strip(RowOf(t).ddl)))

\* A run fetched the preview of a table without rows, and the next run, over
\* the tree the first one left, has passed the table without queueing it.
C28_Witness ==
    \E t \in Tables :
        /\ prevCompleted
        /\ pc = "submit"
        /\ outcome[t] = "ok"
        /\ enable_preview
        /\ rfault[t] = "none"
        /\ previewFile[t] = File(NoDataPreview)
        /\ t \notin Range(preview_tasks)

\* The real query is being run, was run, or failed while running.
Executing ==
    \/ queryRun = "execute"
    \/ "EXECUTE" \in Range(steps)
    \/ queryEnd = "execute_failed"

\* C29: without --force the real query is executed only after a dry run that
\* completed and with an estimate of at most 100 GB (exactly 100 GB asks
\* nothing) or an answer y/yes; a failed dry run ends the process with a
\* non-zero code before the execution, an empty answer declines, and any
\* other answer leaves the run at the prompt.
C29_ExecutesOnlyWithinLimitOrConsent ==
    ~force =>
        /\ Executing =>
              /\ "DRY_RUN" \in Range(steps)
              /\ \/ gb_processed <= Threshold /\ prompts = 0
                 \/ gb_processed > Threshold /\ prompts > 0 /\ SaysYes(response)
        /\ queryEnd = "dry_run_failed" =>
              /\ queryRun = "done"
              /\ queryExit # 0
              /\ ~Executing
        /\ (gb_processed > Threshold /\ prompts > 0 /\ response = <<>>) =>
              /\ queryEnd = "declined"
              /\ ~Executing
        /\ (gb_processed > Threshold /\ prompts > 0
                /\ ~SaysYes(response) /\ ~SaysNo(response)) =>
              /\ queryRun = "gate"
              /\ ~Executing

\* An estimate over the limit, an answer that is neither yes nor no, then a
\* yes: the query was executed.
C29_Witness ==
    /\ ~force
    /\ gb_processed = Threshold + 1
    /\ prompts = MaxPrompts
    /\ SaysYes(response)
    /\ "EXECUTE" \in Range(steps)

\* C30: process_usage_data writes the leaderboard before it tests the tables
\* root and before any usage.sql: a step that writes the leaderboard writes no
\* usage.sql and comes before the records, a step that writes a usage.sql
\* leaves the leaderboard alone.  Without the tables root the write of the
\* leaderboard fails, no usage.sql is written, nothing is created on disk and
\* the command returns 0.
C30_LeaderboardFirstNoRootExitsZero ==
    /\ [](~rootDir =>
            /\ leaderboard = NoFile
            /\ \A t \in Tables : usageFile[t] = NoFile /\ ~tableDir[t]
            /\ updated_tables = 0
            /\ mineRun \notin {"records"}
            /\ (mineRun = "done" /\ mineEnd \notin {"config", "query_failed"}) =>
                   mineEnd = "no_tables_dir" /\ mineExit = 0)
    /\ [](mineEnd = "no_tables_dir" => ~rootDir /\ mineExit = 0)
    /\ [][ /\ leaderboard' # leaderboard =>
                /\ rootDir
                /\ mineRun = "query"
                /\ usageFile' = usageFile
                /\ updated_tables' = 0
           /\ usageFile' # usageFile =>
                /\ mineRun = "records"
                /\ leaderboard' = leaderboard
           /\ <<rootDir, tableDir>>' = <<rootDir, tableDir>> ]_vars

\* A run with usage records and no tables root has returned 0.
C30_Witness ==
    /\ ~rootDir
    /\ data # <<>>
    /\ mineRun = "done"
    /\ mineEnd = "no_tables_dir"
    /\ mineExit = 0

====
